---------------------------- MODULE Spec2Model ----------------------------
(***************************************************************************)
(* Model of conduit's parallel mesh partitioner                            *)
(* (conduit::blueprint::mpi::mesh::parallel_partitioner):                  *)
(*   map_chunks         - every rank all-gathers the chunk information and *)
(*                        computes the destination domain and rank of      *)
(*                        every global chunk;                              *)
(*   communicate_chunks - every rank posts the sends of the chunks that    *)
(*                        leave it, wraps the chunks that stay, posts the  *)
(*                        receives of the chunks that arrive, executes the *)
(*                        transport and renumbers the received chunks.     *)
(* Vectors are 0-based functions, as in the source.                        *)
(***************************************************************************)
EXTENDS Integers, Sequences, FiniteSets, TLC

(***************************************************************************)
(* Bounds of the model.                                                    *)
(***************************************************************************)
NRanks == 2        \* number of MPI ranks
MaxChunks == 3     \* chunks over all ranks
MaxElems == 1      \* elements of one chunk: 0..MaxElems
MaxTarget == 2     \* target domain count: 1..MaxTarget
MaxDomId == 1      \* fixed destination domains: 0..MaxDomId
XferElems == 1     \* elements of one chunk in the runs with transport: 1..XferElems
XferDomId == 0     \* fixed destination domains in the runs with transport
MaxBalanceElems == 3 \* elements of one chunk in the runs on balance: 0..MaxBalanceElems
MaxOptTarget == 2  \* a target in the options: 0..MaxOptTarget
NElems == 3        \* element ids of the mesh a selection is made on: 0..NElems-1
MaxSel == 2        \* selections over all ranks when split_selections starts
MaxSplitTarget == 3 \* target of split_selections: 1..MaxSplitTarget

(***************************************************************************)
(* Program constants.                                                      *)
(***************************************************************************)
FREE_DOMAIN_ID == -1
FREE_RANK_ID == -1
PARTITION_TAG_BASE == 12000

size == NRanks
Ranks == 0 .. (size - 1)

(***************************************************************************)
(* chunk_info: what map_chunks gathers for every chunk.                    *)
(***************************************************************************)
ChunkInfo ==
    [num_elements : 0 .. MaxElems,
     destination_rank : {FREE_RANK_ID} \cup Ranks,
     destination_domain : {FREE_DOMAIN_ID} \cup (0 .. MaxDomId)]

\* The chunks of the runs that go on into the transport.
XferChunkInfo ==
    [num_elements : 1 .. XferElems,
     destination_rank : {FREE_RANK_ID} \cup Ranks,
     destination_domain : {FREE_DOMAIN_ID} \cup (0 .. XferDomId)]

\* Chunks whose destination rank is whatever the options gave: FREE, a rank of
\* the group, or size, which is no rank.  Nothing tests it before line 295.
AnyRankChunkInfo ==
    [num_elements : 0 .. MaxElems,
     destination_rank : {FREE_RANK_ID} \cup (0 .. size),
     destination_domain : {FREE_DOMAIN_ID} \cup (0 .. XferDomId)]

(***************************************************************************)
(* Helpers on 0-based vectors and std::map.                                *)
(***************************************************************************)
VecLen(v) == Cardinality(DOMAIN v)

\* std::map operator[] assignment: insert the key or overwrite its value.
MapPut(m, k, v) == [x \in (DOMAIN m) \cup {k} |-> IF x = k THEN v ELSE m[x]]

(***************************************************************************)
(* The tallies of map_chunks are int (std::map<int,int>, lines 363 and     *)
(* 428), 32 bits wide, while chunk_info::num_elements is a 64-bit unsigned *)
(* integer (lines 210, 291-294).  In `tally += num_elements` the sum is    *)
(* taken in the unsigned type and converted back to int, which keeps its   *)
(* low 32 bits; the element counts of the model are below 2^31.            *)
(***************************************************************************)
INT_MAX == 2147483647
INT_MIN == -INT_MAX - 1

\* int += uint64: the sum modulo 2^32, in [INT_MIN, INT_MAX].
AddToInt(t, n) ==
    IF t > INT_MAX - n
    THEN (t - INT_MAX - 1) + (n - INT_MAX - 1)
    ELSE t + n

\* int = uint64.
ToInt(n) == AddToInt(0, n)

\* int += int leaves the range of int: undefined behaviour.
Overflows(a, b) ==
    \/ a > 0 /\ b > 0 /\ a > INT_MAX - b
    \/ a < 0 /\ b < 0 /\ a < INT_MIN - b

\* int += int where the sum is taken modulo 2^32.
AddInts(a, b) ==
    IF a > 0 /\ b > 0 /\ a > INT_MAX - b
    THEN (a - INT_MAX - 1) + (b - INT_MAX - 1)
    ELSE IF a < 0 /\ b < 0 /\ a < INT_MIN - b
         THEN (a + INT_MAX + 1) + (b + INT_MAX + 1)
         ELSE a + b

\* Chunks of a few elements and chunks of 2^30 elements.
BigElems == INT_MAX \div 2 + 1

BigChunkInfo ==
    [num_elements : {1, BigElems},
     destination_rank : {FREE_RANK_ID} \cup Ranks,
     destination_domain : {FREE_DOMAIN_ID} \cup (0 .. XferDomId)]

(***************************************************************************)
(* map_chunks, lines 256-306: counts, offsets and the gathered chunk info. *)
(***************************************************************************)
NGlobalChunks(ch) == [r \in Ranks |-> VecLen(ch[r])]

RECURSIVE SumUpTo(_, _)
SumUpTo(n, r) == IF r < 0 THEN 0 ELSE n[r] + SumUpTo(n, r - 1)

NTotalChunks(n) == SumUpTo(n, size - 1)

Offsets(n) ==
    LET off[i \in Ranks] == IF i = 0 THEN 0 ELSE off[i - 1] + n[i - 1]
    IN  off

\* MPI_Allgatherv: rank r's local vector lands at offsets[r] .. offsets[r]+n[r]-1.
GlobalChunkInfo(ch) ==
    LET n == NGlobalChunks(ch)
        off == Offsets(n)
    IN  [g \in 0 .. (NTotalChunks(n) - 1) |->
            LET r == CHOOSE q \in Ranks : off[q] <= g /\ g < off[q] + n[q]
            IN  ch[r][g - off[r]]]

\* Mutant: a rank has the chunk info of its own chunks only.
AllgathervLocalOnly(ch, r) == ch[r]

\* What MPI_Allgatherv (lines 298-306) leaves in global_chunk_info on rank r.
Allgatherv(ch, r) == GlobalChunkInfo(ch)

(***************************************************************************)
(* map_chunks, lines 323-332: the reserved destination domains.            *)
(***************************************************************************)
ReservedDD(info) ==
    {info[i].destination_domain : i \in {j \in DOMAIN info :
        info[j].destination_domain # FREE_DOMAIN_ID}}

(***************************************************************************)
(* The loops below are written as recursions on the loop index: iteration  *)
(* i + 1 works on the value nxt that iteration i left, Only({... : nxt     *)
(* \in {step}}) being that value computed once.                            *)
(***************************************************************************)
Only(S) == CHOOSE x \in S : TRUE

(***************************************************************************)
(* map_chunks, lines 363-374: element counts of the named domains.         *)
(***************************************************************************)
NamedDomainCountsStep(info, i, counts) ==
    LET dd == info[i].destination_domain
        ne == info[i].num_elements
    IN  IF dd # FREE_DOMAIN_ID
        THEN IF dd \in DOMAIN counts
             THEN MapPut(counts, dd, AddToInt(counts[dd], ne))
             ELSE MapPut(counts, dd, ToInt(ne))
        ELSE counts

RECURSIVE NamedDomainCountsFrom(_, _, _)
NamedDomainCountsFrom(info, i, counts) ==
    IF i >= VecLen(info) THEN counts
    ELSE Only({NamedDomainCountsFrom(info, i + 1, nxt) :
                  nxt \in {NamedDomainCountsStep(info, i, counts)}})

NamedDomainCounts(info) == NamedDomainCountsFrom(info, 0, << >>)

(***************************************************************************)
(* map_chunks, lines 375-401: additional domain numbers.  The state is the *)
(* reserved set, the counts and the running domid.                         *)
(***************************************************************************)
\* Mutant: the new id is taken above every reserved id.
NextFreeDomidAbove(reserved, domid) ==
    IF reserved = {} THEN domid
    ELSE (CHOOSE m \in reserved : \A x \in reserved : m >= x) + 1

RECURSIVE NextFreeDomid(_, _)
NextFreeDomid(reserved, domid) ==
    IF domid \in reserved THEN NextFreeDomid(reserved, domid + 1) ELSE domid

CreateDomainStep(st) ==
    LET d == NextFreeDomid(st.reserved_dd, st.domid)
    IN  [reserved_dd |-> st.reserved_dd \cup {d},
         domain_elem_counts |-> MapPut(st.domain_elem_counts, d, 0),
         domid |-> d]

\* Mutant: the difference is taken without the test of reserved_dd.size() > target.
DomainsToCreateAbs(reserved, tgt) ==
    IF Cardinality(reserved) > tgt THEN Cardinality(reserved) - tgt
    ELSE tgt - Cardinality(reserved)

\* Mutant: one domain too many is created.
DomainsToCreateOneMore(reserved, tgt) ==
    IF Cardinality(reserved) > tgt THEN 0 ELSE tgt - Cardinality(reserved) + 1

DomainsToCreate(reserved, tgt) ==
    IF Cardinality(reserved) > tgt THEN 0 ELSE tgt - Cardinality(reserved)

RECURSIVE CreateDomainsFrom(_, _, _)
CreateDomainsFrom(i, domains_to_create, st) ==
    IF i >= domains_to_create THEN st
    ELSE Only({CreateDomainsFrom(i + 1, domains_to_create, nxt) :
                  nxt \in {CreateDomainStep(st)}})

CreateDomains(reserved, counts, tgt) ==
    CreateDomainsFrom(0, DomainsToCreate(reserved, tgt),
        [reserved_dd |-> reserved, domain_elem_counts |-> counts, domid |-> 0])

(***************************************************************************)
(* map_chunks, lines 408-414 and 466-472: the key of the least count, the  *)
(* first such key in ascending key order (the comparison is a strict <).   *)
(***************************************************************************)
\* Mutant: the search keeps begin(), the first key.
LeastKeyFirst(counts) ==
    CHOOSE k \in DOMAIN counts : \A j \in DOMAIN counts : k <= j

LeastKey(counts) ==
    CHOOSE k \in DOMAIN counts :
        \A j \in DOMAIN counts :
            counts[k] < counts[j] \/ (counts[k] = counts[j] /\ k <= j)

(***************************************************************************)
(* map_chunks, lines 402-419: chunks with a FREE domain go, in ascending   *)
(* global index, to the domain with the least elements.                    *)
(***************************************************************************)
\* Mutant: the count of the chosen domain is not increased.
AssignDomainStepNoUpdate(info, i, st) ==
    IF st.dest_domain[i] = FREE_DOMAIN_ID
    THEN [st EXCEPT !.dest_domain[i] = LeastKey(st.domain_elem_counts)]
    ELSE st

\* Mutant: the test of FREE_DOMAIN_ID is missing, every chunk is assigned.
AssignDomainStepEvery(info, i, st) ==
    LET dit == LeastKey(st.domain_elem_counts)
    IN  [dest_domain |-> [st.dest_domain EXCEPT ![i] = dit],
         domain_elem_counts |->
             [st.domain_elem_counts EXCEPT ![dit] = AddToInt(@, info[i].num_elements)]]

AssignDomainStep(info, i, st) ==
    IF st.dest_domain[i] = FREE_DOMAIN_ID
    THEN LET dit == LeastKey(st.domain_elem_counts)
         IN  [dest_domain |-> [st.dest_domain EXCEPT ![i] = dit],
              domain_elem_counts |->
                  [st.domain_elem_counts EXCEPT ![dit] = AddToInt(@, info[i].num_elements)]]
    ELSE st

RECURSIVE AssignDomainsFrom(_, _, _)
AssignDomainsFrom(info, i, st) ==
    IF i >= VecLen(info) THEN st
    ELSE Only({AssignDomainsFrom(info, i + 1, nxt) :
                  nxt \in {AssignDomainStep(info, i, st)}})

AssignDomains(info, dd, counts) ==
    AssignDomainsFrom(info, 0, [dest_domain |-> dd, domain_elem_counts |-> counts])

(***************************************************************************)
(* map_chunks, lines 427-443: domains without a rank, elements per rank.   *)
(***************************************************************************)
\* Mutant: the test of the destination rank is inverted.
DomainsToAssignInverted(dr, dd) ==
    {dd[i] : i \in {j \in DOMAIN dr : dr[j] # FREE_RANK_ID}}

DomainsToAssign(dr, dd) ==
    {dd[i] : i \in {j \in DOMAIN dr : dr[j] = FREE_RANK_ID}}

\* rank_elem_counts[dest_rank[i]] += num_elements (operator[] inserts a new key at 0).
FixedRankCountsStep(info, dr, i, counts) ==
    IF dr[i] # FREE_RANK_ID
    THEN MapPut(counts, dr[i],
             AddToInt(IF dr[i] \in DOMAIN counts THEN counts[dr[i]] ELSE 0,
                      info[i].num_elements))
    ELSE counts

RECURSIVE FixedRankCountsFrom(_, _, _, _)
FixedRankCountsFrom(info, dr, i, counts) ==
    IF i >= VecLen(info) THEN counts
    ELSE Only({FixedRankCountsFrom(info, dr, i + 1, nxt) :
                  nxt \in {FixedRankCountsStep(info, dr, i, counts)}})

\* Lines 427-430 first give every rank a count of 0.
FixedRankCounts(info, dr) == FixedRankCountsFrom(info, dr, 0, [r \in Ranks |-> 0])

(***************************************************************************)
(* map_chunks, lines 451-459: std::multimap size -> domain walked in       *)
(* reverse: descending size and, among equal sizes, descending domain id   *)
(* (equal keys keep their insertion order, which is ascending domain id).  *)
(***************************************************************************)
LargestDomain(doms, dcounts) ==
    CHOOSE x \in doms : \A y \in doms :
        dcounts[x] > dcounts[y] \/ (dcounts[x] = dcounts[y] /\ x >= y)

RECURSIVE SizeToDomainReversedFrom(_, _, _)
SizeToDomainReversedFrom(left, dcounts, order) ==
    IF left = {} THEN order
    ELSE Only({SizeToDomainReversedFrom(left \ {d}, dcounts, Append(order, d)) :
                  d \in {LargestDomain(left, dcounts)}})

SizeToDomainReversed(doms, dcounts) == SizeToDomainReversedFrom(doms, dcounts, << >>)

(***************************************************************************)
(* map_chunks, lines 456-481: each domain goes to the rank with the least  *)
(* elements; the rank is written to every chunk of the domain.             *)
(***************************************************************************)
\* Mutant: the rank is written only to the chunks that had a FREE rank.
AssignRankStepFreeOnly(domid, dd, dcounts, st) ==
    LET rit == LeastKey(st.rank_elem_counts)
    IN  [dest_rank |-> [i \in DOMAIN st.dest_rank |->
                           IF dd[i] = domid /\ st.dest_rank[i] = FREE_RANK_ID
                           THEN rit ELSE st.dest_rank[i]],
         rank_elem_counts |->
             [st.rank_elem_counts EXCEPT ![rit] = AddInts(@, dcounts[domid])],
         overflow |-> st.overflow \/ Overflows(st.rank_elem_counts[rit], dcounts[domid])]

\* Mutant: the rank is written to every chunk, whatever its domain.
AssignRankStepEveryChunk(domid, dd, dcounts, st) ==
    LET rit == LeastKey(st.rank_elem_counts)
    IN  [dest_rank |-> [i \in DOMAIN st.dest_rank |-> rit],
         rank_elem_counts |->
             [st.rank_elem_counts EXCEPT ![rit] = AddInts(@, dcounts[domid])],
         overflow |-> st.overflow \/ Overflows(st.rank_elem_counts[rit], dcounts[domid])]

AssignRankStep(domid, dd, dcounts, st) ==
    LET rit == LeastKey(st.rank_elem_counts)
    IN  [dest_rank |-> [i \in DOMAIN st.dest_rank |->
                           IF dd[i] = domid THEN rit ELSE st.dest_rank[i]],
         rank_elem_counts |->
             [st.rank_elem_counts EXCEPT ![rit] = AddInts(@, dcounts[domid])],
         overflow |-> st.overflow \/ Overflows(st.rank_elem_counts[rit], dcounts[domid])]

RECURSIVE AssignRanksFrom(_, _, _, _, _)
AssignRanksFrom(order, k, dd, dcounts, st) ==
    IF k > Len(order) THEN st
    ELSE Only({AssignRanksFrom(order, k + 1, dd, dcounts, nxt) :
                  nxt \in {AssignRankStep(order[k], dd, dcounts, st)}})

AssignRanks(order, dd, dcounts, dr, rcounts) ==
    AssignRanksFrom(order, 1, dd, dcounts,
        [dest_rank |-> dr, rank_elem_counts |-> rcounts, overflow |-> FALSE])

(***************************************************************************)
(* map_chunks, lines 250-498, on the gathered chunk info.                  *)
(***************************************************************************)
MapChunksOf(info, tgt, noff) ==
    LET dr0 == [i \in DOMAIN info |-> info[i].destination_rank]
        dd0 == [i \in DOMAIN info |-> info[i].destination_domain]
    IN  Only({
          LET doms == Only({AssignDomains(info, dd0, c.domain_elem_counts) : c \in {created}})
              rks == Only({AssignRanks(order, doms.dest_domain, doms.domain_elem_counts,
                                       dr0, FixedRankCounts(info, dr0)) :
                            order \in {SizeToDomainReversed(
                                          DomainsToAssign(dr0, doms.dest_domain),
                                          doms.domain_elem_counts)}})
          IN  [dest_rank |-> rks.dest_rank,
               dest_domain |-> doms.dest_domain,
               offsets |-> noff,
               reserved_dd |-> created.reserved_dd,
               domain_elem_counts |-> doms.domain_elem_counts,
               rank_elem_counts |-> rks.rank_elem_counts,
               overflow |-> rks.overflow] :
          created \in {CreateDomains(ReservedDD(info), NamedDomainCounts(info), tgt)}})

(***************************************************************************)
(* communicate_chunks, lines 517-525: the sender of every global chunk.    *)
(* idx walks the chunks of ranks 0 .. size-2 in offset order; what is left *)
(* keeps the initial value size-1.                                         *)
(***************************************************************************)
\* Mutant: the chunks of rank r-1 are given rank r.
SrcRankNext(off, n) ==
    [g \in 0 .. (n - 1) |->
        IF \E r \in 1 .. (size - 1) : off[r - 1] <= g /\ g < off[r]
        THEN CHOOSE r \in 1 .. (size - 1) : off[r - 1] <= g /\ g < off[r]
        ELSE size - 1]

\* Mutant: the chunks that idx does not reach are given rank 0.
SrcRankDefault0(off, n) ==
    [g \in 0 .. (n - 1) |->
        IF \E r \in 1 .. (size - 1) : off[r - 1] <= g /\ g < off[r]
        THEN (CHOOSE r \in 1 .. (size - 1) : off[r - 1] <= g /\ g < off[r]) - 1
        ELSE 0]

SrcRank(off, n) ==
    [g \in 0 .. (n - 1) |->
        IF \E r \in 1 .. (size - 1) : off[r - 1] <= g /\ g < off[r]
        THEN (CHOOSE r \in 1 .. (size - 1) : off[r - 1] <= g /\ g < off[r]) - 1
        ELSE size - 1]

\* Mutant: every chunk is sent with the same tag.
TagBaseOnly(gidx) == PARTITION_TAG_BASE

\* communicate_chunks, lines 554 and 576: the tag of global chunk gidx.
Tag(gidx) == PARTITION_TAG_BASE + gidx

(***************************************************************************)
(* The mesh of local chunk i of rank r, as extraction left it: its data    *)
(* (the children other than state, named by where it was extracted) and    *)
(* its state: domain_id, here the number of the chunk in rank-major order, *)
(* cycle, time and the other entries.  An absent value is {}.  The chunks  *)
(* differ in what their state holds, so that a chunk with none of cycle,   *)
(* time and other entries, and chunks with some or all of them occur.      *)
(***************************************************************************)
ChunkMesh(ch, r, i) ==
    [data |-> {<< r, i >>},
     domain_id |-> {Offsets(NGlobalChunks(ch))[r] + i},
     cycle |-> IF (r + i) % 2 = 1 THEN {100 + i} ELSE {},
     time |-> IF i >= 1 THEN {200 + i} ELSE {},
     other |-> IF r >= 1 THEN {300 + i} ELSE {}]

\* A new conduit::Node: no children.
EmptyNode == [data |-> {}, domain_id |-> {}, cycle |-> {}, time |-> {}, other |-> {}]

(***************************************************************************)
(* communicate_chunks, lines 550-565: the sends of the local chunks that   *)
(* go to another rank, in ascending local index.                           *)
(***************************************************************************)
SendStep(rank, i, dr, off, sends) ==
    LET gidx == off[rank] + i
        dest == dr[gidx]
    IN  IF dest # rank
        THEN Append(sends, [op |-> "send", peer |-> dest, tag |-> Tag(gidx), ref |-> i])
        ELSE sends

RECURSIVE SendOpsFrom(_, _, _, _, _, _)
SendOpsFrom(rank, nlocal, i, dr, off, sends) ==
    IF i >= nlocal THEN sends
    ELSE Only({SendOpsFrom(rank, nlocal, i + 1, dr, off, nxt) :
                  nxt \in {SendStep(rank, i, dr, off, sends)}})

SendOps(rank, nlocal, dr, off) == SendOpsFrom(rank, nlocal, 0, dr, off, << >>)

(***************************************************************************)
(* communicate_chunks, lines 584-604: the wrapper of a chunk that stays:   *)
(* the children of the chunk by reference, a state/domain_id of its own.   *)
(***************************************************************************)
\* Mutant: the wrapper references no child of the chunk.
WrapLocalStateOnly(mesh, domid) ==
    [data |-> {}, domain_id |-> {domid}, cycle |-> mesh.cycle, time |-> mesh.time,
     other |-> {}]

\* Mutant: the state of the chunk is referenced like the other children.
WrapLocalWholeState(mesh, domid) == [mesh EXCEPT !.domain_id = {domid}]

\* Lines 589-600: every child but state by set_external_node, state/cycle
\* and state/time copied if present, state/domain_id set; nothing else of
\* state is taken.
WrapLocal(mesh, domid) ==
    [data |-> mesh.data, domain_id |-> {domid}, cycle |-> mesh.cycle, time |-> mesh.time,
     other |-> {}]

\* Mutant: the new domain id is written to the state of the chunk itself.
ChunkWrappedRenumbered(mesh, domid) == [mesh EXCEPT !.domain_id = {domid}]

\* Lines 589-600, the chunk after it was wrapped: its children are read
\* through const references and state/domain_id is set in n_recv only.
ChunkWrapped(mesh, domid) == mesh

\* The meshes of the local chunks of a rank after the loop of lines 571-629.
ChunksWrapped(cm, rank, dr, dd, off) ==
    [i \in DOMAIN cm |->
        IF dr[off[rank] + i] = rank THEN ChunkWrapped(cm[i], dd[off[rank] + i])
        ELSE cm[i]]

\* Mutant: the chunk is put in front of the vector.
PushFront(v, c) == << c >> \o v

\* communicate_chunks, lines 603 and 625: chunks_to_assemble.push_back.
PushBack(v, c) == Append(v, c)

(***************************************************************************)
(* communicate_chunks, lines 571-629: for every global chunk that comes to *)
(* this rank, in ascending global index, the wrapper of a local chunk or   *)
(* the receive of a remote one.  acc holds chunks_to_assemble (cta),       *)
(* chunks_to_assemble_domains (ctad), the receives (recvs, ref being the   *)
(* position of the node in cta) and node_domains (nd).                     *)
(***************************************************************************)
RecvStep(ch, rank, i, dr, dd, off, src_rank, acc) ==
    IF dr[i] = rank
    THEN LET start == off[rank]
             end == start + VecLen(ch[rank])
             this_rank_already_owns_it == (i >= start /\ i < end)
             slot == Len(acc.cta) + 1
         IN  IF this_rank_already_owns_it
             THEN [acc EXCEPT
                      !.cta = PushBack(@, WrapLocal(ChunkMesh(ch, rank, i - off[rank]), dd[i])),
                      !.ctad = Append(@, dd[i])]
             ELSE [acc EXCEPT
                      !.cta = PushBack(@, EmptyNode),
                      !.ctad = Append(@, dd[i]),
                      !.recvs = Append(@, [op |-> "recv", peer |-> src_rank[i],
                                           tag |-> Tag(i), ref |-> slot]),
                      !.nd = MapPut(@, slot, dd[i])]
    ELSE acc

RECURSIVE RecvLoopFrom(_, _, _, _, _, _, _, _)
RecvLoopFrom(ch, rank, i, dr, dd, off, src_rank, acc) ==
    IF i >= VecLen(dr) THEN acc
    ELSE Only({RecvLoopFrom(ch, rank, i + 1, dr, dd, off, src_rank, nxt) :
                  nxt \in {RecvStep(ch, rank, i, dr, dd, off, src_rank, acc)}})

RecvLoop(ch, rank, dr, dd, off, src_rank) ==
    RecvLoopFrom(ch, rank, 0, dr, dd, off, src_rank,
        [cta |-> << >>, ctad |-> << >>, recvs |-> << >>, nd |-> << >>])

(***************************************************************************)
(* communicate_chunks, lines 634-641: renumber the received nodes.         *)
(***************************************************************************)
\* Mutant: the received nodes keep the domain_id they arrived with.
RenumberNothing(cta, nd) == cta

Renumber(cta, nd) ==
    [k \in DOMAIN cta |->
        IF k \in DOMAIN nd THEN [cta[k] EXCEPT !.domain_id = {nd[k]}] ELSE cta[k]]

(***************************************************************************)
(* State.                                                                  *)
(***************************************************************************)
VARIABLES
    target,                      \* partitioner::target
    chunks,                      \* chunks[r]: the chunks of rank r (their chunk_info)
    eager,                       \* whether the MPI library buffers standard sends
    pc,                          \* pc[r]: where rank r is
    entered,                     \* ranks that have entered the all-gathers
    dest_rank,                   \* dest_rank[r]: rank r's copy of the global vector
    dest_domain,                 \* dest_domain[r]: rank r's copy
    offsets,                     \* offsets[r]: rank r's copy
    ops,                         \* ops[r]: operations added to rank r's communicator
    chunks_to_assemble,          \* per rank
    chunks_to_assemble_domains,  \* per rank
    node_domains,                \* per rank: position in chunks_to_assemble -> domain
    reqs,                        \* reqs[r]: pending requests of the current phase
    net,                         \* buffered messages in flight
    prev,                        \* << >>, or the outputs of a completed first run
    reserved_dd,                 \* per rank: map_chunks' reserved_dd when it returned
    domain_elem_counts,          \* per rank: map_chunks' domain_elem_counts
    rank_elem_counts,            \* per rank: map_chunks' rank_elem_counts
    chunk_mesh,                  \* chunk_mesh[r][i]: the node *chunks[i].mesh of rank r
    freed,                       \* the chunks << r, i >> that were freed
    options,                     \* options[r]: the target in rank r's options, or NoTarget
    value,                       \* value[r]: options_get_target's out parameter
    retval,                      \* retval[r]: options_get_target's return value
    original,                    \* original[r]: the selections rank r started with
    selections,                  \* selections[r]: partitioner::selections of rank r
    sel_rank,                    \* sel_rank[r]: get_largest_selection's out parameter
    sel_index,                   \* sel_index[r]: get_largest_selection's out parameter
    contrib,                     \* contrib[r]: what rank r gave to the collective under way
    departed                     \* ranks that returned from the collective under way

inputs == << target, chunks, eager >>
run == << pc, entered, dest_rank, dest_domain, offsets, ops, chunks_to_assemble,
          chunks_to_assemble_domains, node_domains, reqs, net >>
maplocals == << reserved_dd, domain_elem_counts, rank_elem_counts >>
front == << options, value, retval, original, selections, sel_rank, sel_index,
            contrib, departed >>
rest == << chunk_mesh, freed, front >>
vars == << inputs, run, prev, maplocals, rest >>

\* The chunk vectors of all ranks with n[r] chunks on rank r, cut from flat.
Distribute(n, flat) ==
    [r \in Ranks |-> [i \in 0 .. (n[r] - 1) |-> flat[Offsets(n)[r] + i]]]

StartRun ==
    /\ pc = [r \in Ranks |-> "start"]
    /\ entered = {}
    /\ dest_rank = [r \in Ranks |-> << >>]
    /\ dest_domain = [r \in Ranks |-> << >>]
    /\ offsets = [r \in Ranks |-> << >>]
    /\ ops = [r \in Ranks |-> << >>]
    /\ chunks_to_assemble = [r \in Ranks |-> << >>]
    /\ chunks_to_assemble_domains = [r \in Ranks |-> << >>]
    /\ node_domains = [r \in Ranks |-> << >>]
    /\ reqs = [r \in Ranks |-> {}]
    /\ net = {}
    /\ reserved_dd = [r \in Ranks |-> {}]
    /\ domain_elem_counts = [r \in Ranks |-> << >>]
    /\ rank_elem_counts = [r \in Ranks |-> << >>]

\* Options without a target; an out parameter or a contribution not yet written.
NoTarget == -1
NoValue == -1

\* initialize and split_selections are not under way.
NoFront ==
    /\ options = [r \in Ranks |-> NoTarget]
    /\ value = [r \in Ranks |-> NoValue]
    /\ retval = [r \in Ranks |-> NoValue]
    /\ original = [r \in Ranks |-> << >>]
    /\ selections = [r \in Ranks |-> << >>]
    /\ sel_rank = [r \in Ranks |-> NoValue]
    /\ sel_index = [r \in Ranks |-> NoValue]
    /\ contrib = [r \in Ranks |-> NoValue]
    /\ departed = {}

\* The chunks as extraction left them, none freed.
StartRest ==
    /\ chunk_mesh = [r \in Ranks |-> [i \in DOMAIN chunks[r] |-> ChunkMesh(chunks, r, i)]]
    /\ freed = {}
    /\ NoFront

\* The inputs: a target, a library behaviour and chunk vectors drawn from Info.
InputsFrom(Info, Eagers) ==
    /\ target \in 1 .. MaxTarget
    /\ eager \in Eagers
    /\ \E n \in {m \in [Ranks -> 0 .. MaxChunks] : NTotalChunks(m) <= MaxChunks} :
         \E flat \in [0 .. (NTotalChunks(n) - 1) -> Info] :
            chunks = Distribute(n, flat)

Init ==
    /\ InputsFrom(XferChunkInfo, BOOLEAN)
    /\ StartRun
    /\ StartRest
    /\ prev = << >>

\* map_chunks alone, on chunks of every size.
InitMap ==
    /\ InputsFrom(ChunkInfo, {FALSE})
    /\ StartRun
    /\ StartRest
    /\ prev = << >>

(***************************************************************************)
(* map_chunks, lines 256-306: the rank enters the all-gathers, which       *)
(* return when every rank has entered.                                     *)
(***************************************************************************)
EnterGather(r) ==
    /\ pc[r] = "start"
    /\ pc' = [pc EXCEPT ![r] = "gather"]
    /\ entered' = entered \cup {r}
    /\ UNCHANGED << inputs, dest_rank, dest_domain, offsets, ops, chunks_to_assemble,
                    chunks_to_assemble_domains, node_domains, reqs, net, prev, maplocals, rest >>

(***************************************************************************)
(* map_chunks, lines 307-498: the rest, on the gathered data.              *)
(***************************************************************************)
MapChunks(r) ==
    /\ pc[r] = "gather"
    /\ entered = Ranks
    /\ \E info \in {Allgatherv(chunks, r)} :
         \E m \in {MapChunksOf(info, target, Offsets(NGlobalChunks(chunks)))} :
            /\ dest_rank' = [dest_rank EXCEPT ![r] = m.dest_rank]
            /\ dest_domain' = [dest_domain EXCEPT ![r] = m.dest_domain]
            /\ offsets' = [offsets EXCEPT ![r] = m.offsets]
            /\ reserved_dd' = [reserved_dd EXCEPT ![r] = m.reserved_dd]
            /\ domain_elem_counts' = [domain_elem_counts EXCEPT ![r] = m.domain_elem_counts]
            /\ rank_elem_counts' = [rank_elem_counts EXCEPT ![r] = m.rank_elem_counts]
    /\ pc' = [pc EXCEPT ![r] = "mapped"]
    /\ UNCHANGED << inputs, entered, ops, chunks_to_assemble,
                    chunks_to_assemble_domains, node_domains, reqs, net, prev, rest >>

(***************************************************************************)
(* communicate_chunks, lines 517-632: post the sends and receives, fill    *)
(* chunks_to_assemble, and start the transport's execute(), whose first    *)
(* phase exchanges the layouts.                                            *)
(***************************************************************************)
CommunicateChunks(r) ==
    /\ pc[r] = "mapped"
    /\ \E src_rank \in {SrcRank(offsets[r], VecLen(dest_rank[r]))} :
       \E sends \in {SendOps(r, VecLen(chunks[r]), dest_rank[r], offsets[r])} :
       \E acc \in {RecvLoop(chunks, r, dest_rank[r], dest_domain[r], offsets[r], src_rank)} :
           /\ ops' = [ops EXCEPT ![r] = sends \o acc.recvs]
           /\ chunks_to_assemble' = [chunks_to_assemble EXCEPT ![r] = acc.cta]
           /\ chunks_to_assemble_domains' =
                  [chunks_to_assemble_domains EXCEPT ![r] = acc.ctad]
           /\ node_domains' = [node_domains EXCEPT ![r] = acc.nd]
           /\ reqs' = [reqs EXCEPT ![r] = 1 .. Len(sends \o acc.recvs)]
    /\ chunk_mesh' = [chunk_mesh EXCEPT
                         ![r] = ChunksWrapped(@, r, dest_rank[r], dest_domain[r], offsets[r])]
    /\ pc' = [pc EXCEPT ![r] = "layout"]
    /\ UNCHANGED << inputs, entered, dest_rank, dest_domain, offsets, net, prev, maplocals,
                    freed, front >>


(***************************************************************************)
(* The transport, communicate_using_schema::execute(): every operation is  *)
(* a non-blocking send or receive; a first phase exchanges the layouts, a  *)
(* second the payloads, and each phase waits for all of its requests.      *)
(* A send matches the receive posted by its peer for its source and tag.   *)
(***************************************************************************)
InTransport(r) == pc[r] \in {"layout", "payload"}

Matches(s, snd, d, rcv) ==
    /\ snd.op = "send" /\ rcv.op = "recv"
    /\ snd.peer = d /\ rcv.peer = s
    /\ snd.tag = rcv.tag

\* The node of a receive after its payload arrived: the sender's mesh.
Received(cta, slot, mesh) == [cta EXCEPT ![slot] = mesh]

\* A send and its posted receive complete together.
Match(s, i, d, j) ==
    /\ InTransport(s) /\ pc[d] = pc[s] /\ s # d
    /\ i \in reqs[s] /\ j \in reqs[d]
    /\ Matches(s, ops[s][i], d, ops[d][j])
    /\ reqs' = [reqs EXCEPT ![s] = @ \ {i}, ![d] = @ \ {j}]
    /\ chunks_to_assemble' =
          IF pc[s] = "payload"
          THEN [chunks_to_assemble EXCEPT
                   ![d] = Received(@, ops[d][j].ref, ChunkMesh(chunks, s, ops[s][i].ref))]
          ELSE chunks_to_assemble
    /\ UNCHANGED << inputs, pc, entered, dest_rank, dest_domain, offsets, ops,
                    chunks_to_assemble_domains, node_domains, net, prev, maplocals, rest >>

\* A buffered send completes before its receive is posted.
BufferSend(s, i) ==
    /\ eager
    /\ InTransport(s) /\ i \in reqs[s] /\ ops[s][i].op = "send"
    /\ reqs' = [reqs EXCEPT ![s] = @ \ {i}]
    /\ net' = net \cup {[src |-> s, dst |-> ops[s][i].peer, tag |-> ops[s][i].tag,
                         kind |-> pc[s], mesh |-> ChunkMesh(chunks, s, ops[s][i].ref)]}
    /\ UNCHANGED << inputs, pc, entered, dest_rank, dest_domain, offsets, ops,
                    chunks_to_assemble, chunks_to_assemble_domains, node_domains, prev, maplocals, rest >>

\* A buffered message completes the receive posted for it.
Deliver(d, j) ==
    /\ InTransport(d) /\ j \in reqs[d] /\ ops[d][j].op = "recv"
    /\ \E m \in net :
          /\ m.dst = d /\ m.src = ops[d][j].peer /\ m.tag = ops[d][j].tag
          /\ m.kind = pc[d]
          /\ net' = net \ {m}
          /\ chunks_to_assemble' =
                IF pc[d] = "payload"
                THEN [chunks_to_assemble EXCEPT ![d] = Received(@, ops[d][j].ref, m.mesh)]
                ELSE chunks_to_assemble
    /\ reqs' = [reqs EXCEPT ![d] = @ \ {j}]
    /\ UNCHANGED << inputs, pc, entered, dest_rank, dest_domain, offsets, ops,
                    chunks_to_assemble_domains, node_domains, prev, maplocals, rest >>

\* All layouts are exchanged: post the payloads.
LayoutDone(r) ==
    /\ pc[r] = "layout" /\ reqs[r] = {}
    /\ pc' = [pc EXCEPT ![r] = "payload"]
    /\ reqs' = [reqs EXCEPT ![r] = 1 .. Len(ops[r])]
    /\ UNCHANGED << inputs, entered, dest_rank, dest_domain, offsets, ops,
                    chunks_to_assemble, chunks_to_assemble_domains, node_domains,
                    net, prev, maplocals, rest >>

(***************************************************************************)
(* communicate_chunks, lines 632-642: execute() returns, the received      *)
(* nodes are renumbered, communicate_chunks returns.                       *)
(***************************************************************************)
\* Mutant: the received nodes are renumbered without waiting for execute().
CommunicateReturnEarly(r) ==
    /\ pc[r] = "payload"
    /\ chunks_to_assemble' =
          [chunks_to_assemble EXCEPT ![r] = Renumber(@, node_domains[r])]
    /\ pc' = [pc EXCEPT ![r] = "done"]
    /\ UNCHANGED << inputs, entered, dest_rank, dest_domain, offsets, ops,
                    chunks_to_assemble_domains, node_domains, reqs, net, prev, maplocals, rest >>

CommunicateReturn(r) ==
    /\ pc[r] = "payload" /\ reqs[r] = {}
    /\ chunks_to_assemble' =
          [chunks_to_assemble EXCEPT ![r] = Renumber(@, node_domains[r])]
    /\ pc' = [pc EXCEPT ![r] = "done"]
    /\ UNCHANGED << inputs, entered, dest_rank, dest_domain, offsets, ops,
                    chunks_to_assemble_domains, node_domains, reqs, net, prev, maplocals, rest >>

Next ==
    \/ \E r \in Ranks : EnterGather(r)
    \/ \E r \in Ranks : MapChunks(r)
    \/ \E r \in Ranks : CommunicateChunks(r)
    \/ \E s, d \in Ranks : \E i \in reqs[s], j \in reqs[d] : Match(s, i, d, j)
    \/ \E s \in Ranks : \E i \in reqs[s] : BufferSend(s, i)
    \/ \E d \in Ranks : \E j \in reqs[d] : Deliver(d, j)
    \/ \E r \in Ranks : LayoutDone(r)
    \/ \E r \in Ranks : CommunicateReturn(r)

Spec == Init /\ [][Next]_vars

\* The runs whose chunks all have a FREE destination domain.
InitLive ==
    /\ InputsFrom([num_elements : 1 .. XferElems,
                   destination_rank : {FREE_RANK_ID} \cup Ranks,
                   destination_domain : {FREE_DOMAIN_ID}], BOOLEAN)
    /\ StartRun
    /\ StartRest
    /\ prev = << >>

\* Every enabled step is eventually taken: the transport delivers, ranks run.
RankStep(r) ==
    \/ EnterGather(r)
    \/ MapChunks(r)
    \/ CommunicateChunks(r)
    \/ LayoutDone(r)
    \/ CommunicateReturn(r)

Transfer ==
    \/ \E s, d \in Ranks : \E i \in reqs[s], j \in reqs[d] : Match(s, i, d, j)
    \/ \E s \in Ranks : \E i \in reqs[s] : BufferSend(s, i)
    \/ \E d \in Ranks : \E j \in reqs[d] : Deliver(d, j)

Fairness ==
    /\ \A r \in Ranks : WF_vars(RankStep(r))
    /\ WF_vars(Transfer)

FairSpec == InitLive /\ [][Next]_vars /\ Fairness

AllDone == \A r \in Ranks : pc[r] = "done"

\* What a run leaves on every rank.
Outputs ==
    [r \in Ranks |->
        [dest_rank |-> dest_rank[r],
         dest_domain |-> dest_domain[r],
         chunks_to_assemble |-> chunks_to_assemble[r],
         chunks_to_assemble_domains |-> chunks_to_assemble_domains[r]]]

\* The engine is run a second time on the same inputs; the outputs of the
\* first run are kept for comparison.
Rerun ==
    /\ AllDone /\ prev = << >>
    /\ prev' = << Outputs >>
    /\ pc' = [r \in Ranks |-> "start"]
    /\ entered' = {}
    /\ dest_rank' = [r \in Ranks |-> << >>]
    /\ dest_domain' = [r \in Ranks |-> << >>]
    /\ offsets' = [r \in Ranks |-> << >>]
    /\ ops' = [r \in Ranks |-> << >>]
    /\ chunks_to_assemble' = [r \in Ranks |-> << >>]
    /\ chunks_to_assemble_domains' = [r \in Ranks |-> << >>]
    /\ node_domains' = [r \in Ranks |-> << >>]
    /\ reqs' = [r \in Ranks |-> {}]
    /\ net' = {}
    /\ reserved_dd' = [r \in Ranks |-> {}]
    /\ domain_elem_counts' = [r \in Ranks |-> << >>]
    /\ rank_elem_counts' = [r \in Ranks |-> << >>]
    /\ UNCHANGED << inputs, rest >>

NextTwice == Next \/ Rerun

SpecTwice == Init /\ [][NextTwice]_vars

(***************************************************************************)
(* The driver, partitioner::execute, after communicate_chunks returned:    *)
(* the chunks of chunks_to_assemble are combined into the output domains,  *)
(* then the chunks the partitioner owns are freed (chunk::free).           *)
(***************************************************************************)
\* The rank has combined the chunks of its chunks_to_assemble.
Combined(r) == pc[r] = "combined"

Combine(r) ==
    /\ pc[r] = "done"
    /\ pc' = [pc EXCEPT ![r] = "combined"]
    /\ UNCHANGED << inputs, entered, dest_rank, dest_domain, offsets, ops,
                    chunks_to_assemble, chunks_to_assemble_domains, node_domains,
                    reqs, net, prev, maplocals, rest >>

\* Mutant: the chunks may be freed as soon as communicate_chunks returned.
FreeAtReturn(r) == pc[r] \in {"done", "combined"}

\* The driver frees the chunks at the end, after the combination.
FreeAtEnd(r) == pc[r] = "combined"

\* The extracted chunks of rank r, as (rank, local index).
ExtractedChunks(r) == {<< r, i >> : i \in DOMAIN chunks[r]}

FreeChunks(r) ==
    /\ FreeAtEnd(r)
    /\ ~(ExtractedChunks(r) \subseteq freed)
    /\ freed' = freed \cup ExtractedChunks(r)
    /\ UNCHANGED << inputs, pc, entered, dest_rank, dest_domain, offsets, ops,
                    chunks_to_assemble, chunks_to_assemble_domains, node_domains,
                    reqs, net, prev, maplocals, chunk_mesh, front >>

NextExecute ==
    \/ Next
    \/ \E r \in Ranks : Combine(r)
    \/ \E r \in Ranks : FreeChunks(r)

SpecExecute == Init /\ [][NextExecute]_vars

NextMap ==
    \/ \E r \in Ranks : EnterGather(r)
    \/ \E r \in Ranks : MapChunks(r)

SpecMap == InitMap /\ [][NextMap]_vars

\* map_chunks on chunks that all have a FREE destination domain, of more sizes.
InitBalance ==
    /\ InputsFrom([num_elements : 0 .. MaxBalanceElems,
                   destination_rank : {FREE_RANK_ID} \cup Ranks,
                   destination_domain : {FREE_DOMAIN_ID}], {FALSE})
    /\ StartRun
    /\ StartRest
    /\ prev = << >>

SpecBalance == InitBalance /\ [][NextMap]_vars

\* map_chunks on chunks with any destination rank.
InitAnyRank ==
    /\ InputsFrom(AnyRankChunkInfo, {FALSE})
    /\ StartRun
    /\ StartRest
    /\ prev = << >>

SpecMapAnyRank == InitAnyRank /\ [][NextMap]_vars

\* map_chunks, line 475: rit->second += domain_elem_counts[domid] leaves the
\* range of int.  The behaviour is undefined: the sum is taken modulo 2^32
\* (MapChunks), or the addition traps and the process ends.
MapChunksOverflow(r) ==
    /\ pc[r] = "gather"
    /\ entered = Ranks
    /\ \E info \in {Allgatherv(chunks, r)} :
          MapChunksOf(info, target, Offsets(NGlobalChunks(chunks))).overflow
    /\ pc' = [pc EXCEPT ![r] = "aborted"]
    /\ UNCHANGED << inputs, entered, dest_rank, dest_domain, offsets, ops,
                    chunks_to_assemble, chunks_to_assemble_domains, node_domains,
                    reqs, net, prev, maplocals, rest >>

\* map_chunks on chunks of up to 2^30 elements.
InitBig ==
    /\ InputsFrom(BigChunkInfo, {FALSE})
    /\ StartRun
    /\ StartRest
    /\ prev = << >>

NextMapBig ==
    \/ NextMap
    \/ \E r \in Ranks : MapChunksOverflow(r)

SpecMapBig == InitBig /\ [][NextMapBig]_vars


(***************************************************************************)
(* Blocking collectives (MPI_Allreduce): a rank gives its contribution     *)
(* when it enters and returns once every rank has entered.  The next       *)
(* collective starts after every rank returned from this one; what a rank  *)
(* contributes does not depend on when it enters, since only the rank      *)
(* itself changes its own data.                                            *)
(***************************************************************************)
CollEnter(r, v) ==
    /\ contrib[r] = NoValue
    /\ contrib' = [contrib EXCEPT ![r] = v]
    /\ UNCHANGED departed

CollReady(r) == r \notin departed /\ \A q \in Ranks : contrib[q] # NoValue

CollLeave(r) ==
    IF departed \cup {r} = Ranks
    THEN contrib' = [q \in Ranks |-> NoValue] /\ departed' = {}
    ELSE departed' = departed \cup {r} /\ UNCHANGED contrib

\* No pipeline run: nothing of map_chunks and communicate_chunks is set.
IdleRun ==
    /\ chunks = [r \in Ranks |-> << >>]
    /\ eager = FALSE
    /\ entered = {}
    /\ dest_rank = [r \in Ranks |-> << >>]
    /\ dest_domain = [r \in Ranks |-> << >>]
    /\ offsets = [r \in Ranks |-> << >>]
    /\ ops = [r \in Ranks |-> << >>]
    /\ chunks_to_assemble = [r \in Ranks |-> << >>]
    /\ chunks_to_assemble_domains = [r \in Ranks |-> << >>]
    /\ node_domains = [r \in Ranks |-> << >>]
    /\ reqs = [r \in Ranks |-> {}]
    /\ net = {}
    /\ reserved_dd = [r \in Ranks |-> {}]
    /\ domain_elem_counts = [r \in Ranks |-> << >>]
    /\ rank_elem_counts = [r \in Ranks |-> << >>]
    /\ chunk_mesh = [r \in Ranks |-> << >>]
    /\ freed = {}
    /\ prev = << >>

(***************************************************************************)
(* options_get_target, lines 73-86.                                        *)
(***************************************************************************)
\* Mutant: a rank without a target contributes the default 1.
LocalTargetDefault1(opt) == IF opt = NoTarget THEN 1 ELSE opt

\* Lines 77-79: val = 0, overwritten by the target of the options if any.
LocalTarget(opt) == IF opt = NoTarget THEN 0 ELSE opt

\* MPI_MAX over the contributions.
ReduceMax(c) == CHOOSE m \in {c[q] : q \in Ranks} : \A q \in Ranks : m >= c[q]

\* Lines 77-82: the rank enters MPI_Allreduce with its val.
OptionsGetTargetEnter(r) ==
    /\ pc[r] = "options"
    /\ CollEnter(r, LocalTarget(options[r]))
    /\ pc' = [pc EXCEPT ![r] = "allreduce"]
    /\ UNCHANGED << target, chunks, eager, entered, dest_rank, dest_domain, offsets,
                    ops, chunks_to_assemble, chunks_to_assemble_domains, node_domains,
                    reqs, net, prev, maplocals, chunk_mesh, freed, options, value,
                    retval, original, selections, sel_rank, sel_index >>

\* Lines 82-85: MPI_Allreduce returns the maximum in value; return value > 0.
OptionsGetTargetReturn(r) ==
    /\ pc[r] = "allreduce"
    /\ CollReady(r)
    /\ \E m \in {ReduceMax(contrib)} :
          /\ value' = [value EXCEPT ![r] = m]
          /\ retval' = [retval EXCEPT ![r] = (m > 0)]
    /\ CollLeave(r)
    /\ pc' = [pc EXCEPT ![r] = "target_done"]
    /\ UNCHANGED << target, chunks, eager, entered, dest_rank, dest_domain, offsets,
                    ops, chunks_to_assemble, chunks_to_assemble_domains, node_domains,
                    reqs, net, prev, maplocals, chunk_mesh, freed, options,
                    original, selections, sel_rank, sel_index >>

\* Every rank is about to call options_get_target with its own options.
InitTarget ==
    /\ options \in [Ranks -> {NoTarget} \cup (0 .. MaxOptTarget)]
    /\ pc = [r \in Ranks |-> "options"]
    /\ target = 1
    /\ IdleRun
    /\ value = [r \in Ranks |-> NoValue]
    /\ retval = [r \in Ranks |-> NoValue]
    /\ original = [r \in Ranks |-> << >>]
    /\ selections = [r \in Ranks |-> << >>]
    /\ sel_rank = [r \in Ranks |-> NoValue]
    /\ sel_index = [r \in Ranks |-> NoValue]
    /\ contrib = [r \in Ranks |-> NoValue]
    /\ departed = {}

NextTarget ==
    \/ \E r \in Ranks : OptionsGetTargetEnter(r)
    \/ \E r \in Ranks : OptionsGetTargetReturn(r)

SpecTarget == InitTarget /\ [][NextTarget]_vars

(***************************************************************************)
(* Selections.  A selection is modelled by its element ids (sorted, as an  *)
(* explicit element selection holds them), by the selection of the options *)
(* it comes from (origin) and by whether it is a sub-selection that a      *)
(* field selection produced.  selections[r] is a sequence; sel_index is    *)
(* the 0-based index of the source.                                        *)
(***************************************************************************)
SortedIds ==
    {e \in UNION {[1 .. n -> 0 .. (NElems - 1)] : n \in 0 .. NElems} :
        \A i \in 1 .. (Len(e) - 1) : e[i] < e[i + 1]}

\* selection::length: the number of elements of the selection.
Length(sel) == Len(sel.elements)

\* Mutant: the element at the midpoint is in neither half.
PartitionDropMiddle(sel) ==
    LET n == Len(sel.elements)
        mid == n \div 2
    IN  << [sel EXCEPT !.elements = SubSeq(sel.elements, 1, mid)],
           [sel EXCEPT !.elements = SubSeq(sel.elements, mid + 2, n)] >>

\* selection::partition of an explicit element selection: the sorted id
\* vector is split at its midpoint.
Partition(sel) ==
    LET n == Len(sel.elements)
        mid == n \div 2
    IN  << [sel EXCEPT !.elements = SubSeq(sel.elements, 1, mid)],
           [sel EXCEPT !.elements = SubSeq(sel.elements, mid + 1, n)] >>

\* Mutant: every selection is split.
SplittableAlways(sel) == TRUE

\* The sub-selections of a field selection are not split.
Splittable(sel) == ~sel.from_field

(***************************************************************************)
(* get_total_selections, lines 141-150.                                    *)
(***************************************************************************)
\* MPI_SUM over the contributions.
ReduceSum(c) == SumUpTo(c, size - 1)

GetTotalSelectionsEnter(r) ==
    /\ pc[r] = "split"
    /\ CollEnter(r, Len(selections[r]))
    /\ pc' = [pc EXCEPT ![r] = "total"]
    /\ UNCHANGED << target, chunks, eager, entered, dest_rank, dest_domain, offsets,
                    ops, chunks_to_assemble, chunks_to_assemble_domains, node_domains,
                    reqs, net, prev, maplocals, chunk_mesh, freed, options, value,
                    retval, original, selections, sel_rank, sel_index >>

\* split_selections goes on until the total is the target.
SplitAgain(total, tgt) == total # tgt

GetTotalSelectionsReturn(r) ==
    /\ pc[r] = "total"
    /\ CollReady(r)
    /\ \E total \in {ReduceSum(contrib)} :
          pc' = [pc EXCEPT ![r] = IF SplitAgain(total, target) THEN "largest"
                                  ELSE "split_done"]
    /\ CollLeave(r)
    /\ UNCHANGED << target, chunks, eager, entered, dest_rank, dest_domain, offsets,
                    ops, chunks_to_assemble, chunks_to_assemble_domains, node_domains,
                    reqs, net, prev, maplocals, chunk_mesh, freed, options, value,
                    retval, original, selections, sel_rank, sel_index >>

(***************************************************************************)
(* get_largest_selection, lines 159-199.                                   *)
(***************************************************************************)
\* Lines 162-174: largest_selection.value, 0 or the largest local size.
LargestLocal(sels) ==
    IF \E i \in DOMAIN sels : Length(sels[i]) > 0
    THEN Length(sels[CHOOSE i \in DOMAIN sels :
                         \A j \in DOMAIN sels : Length(sels[i]) >= Length(sels[j])])
    ELSE 0

\* MPI_MAXLOC, lines 178-183: the rank of the largest value, the lowest such rank.
MaxLoc(c) ==
    CHOOSE q \in Ranks :
        /\ \A p \in Ranks : c[q] >= c[p]
        /\ \A p \in Ranks : c[p] = c[q] => q <= p

\* Lines 189-198: the first local selection of size ssize, or -1.
FirstOfSize(sels, ssize) ==
    IF \E i \in DOMAIN sels : Length(sels[i]) = ssize
    THEN (CHOOSE i \in DOMAIN sels :
             /\ Length(sels[i]) = ssize
             /\ \A j \in DOMAIN sels : Length(sels[j]) = ssize => i <= j) - 1
    ELSE -1

GetLargestSelectionEnter(r) ==
    /\ pc[r] = "largest"
    /\ CollEnter(r, LargestLocal(selections[r]))
    /\ pc' = [pc EXCEPT ![r] = "maxloc"]
    /\ UNCHANGED << target, chunks, eager, entered, dest_rank, dest_domain, offsets,
                    ops, chunks_to_assemble, chunks_to_assemble_domains, node_domains,
                    reqs, net, prev, maplocals, chunk_mesh, freed, options, value,
                    retval, original, selections, sel_rank, sel_index >>

GetLargestSelectionReturn(r) ==
    /\ pc[r] = "maxloc"
    /\ CollReady(r)
    /\ \E q \in {MaxLoc(contrib)} :
          /\ sel_rank' = [sel_rank EXCEPT ![r] = q]
          /\ sel_index' = [sel_index EXCEPT ![r] =
                              IF q = r THEN FirstOfSize(selections[r], contrib[q])
                              ELSE -1]
    /\ CollLeave(r)
    /\ pc' = [pc EXCEPT ![r] = "replace"]
    /\ UNCHANGED << target, chunks, eager, entered, dest_rank, dest_domain, offsets,
                    ops, chunks_to_assemble, chunks_to_assemble_domains, node_domains,
                    reqs, net, prev, maplocals, chunk_mesh, freed, options, value,
                    retval, original, selections >>

(***************************************************************************)
(* split_selections: on the rank that owns the largest selection, the      *)
(* selection is replaced by its partition; then the loop starts again.     *)
(***************************************************************************)
ReplaceAt(sels, k, parts) ==
    SubSeq(sels, 1, k - 1) \o parts \o SubSeq(sels, k + 1, Len(sels))

ReplaceSelection(r) ==
    /\ pc[r] = "replace"
    /\ selections' =
          IF sel_rank[r] = r /\ sel_index[r] # -1
          THEN IF Splittable(selections[r][sel_index[r] + 1])
               THEN [selections EXCEPT ![r] =
                        ReplaceAt(@, sel_index[r] + 1, Partition(@[sel_index[r] + 1]))]
               ELSE selections
          ELSE selections
    /\ pc' = [pc EXCEPT ![r] = "split"]
    /\ UNCHANGED << target, chunks, eager, entered, dest_rank, dest_domain, offsets,
                    ops, chunks_to_assemble, chunks_to_assemble_domains, node_domains,
                    reqs, net, prev, maplocals, chunk_mesh, freed, options, value,
                    retval, original, sel_rank, sel_index, contrib, departed >>

\* The selections when split_selections starts: at most MaxSel in all, not
\* more than target.
InitSplit ==
    /\ \E body \in {b \in [Ranks -> UNION {[1 .. k -> [elements : SortedIds,
                                                         from_field : BOOLEAN]] :
                                             k \in 0 .. MaxSel}] :
                       ReduceSum([r \in Ranks |-> Len(b[r])]) <= MaxSel} :
          /\ original = [r \in Ranks |-> [k \in 1 .. Len(body[r]) |->
                            [elements |-> body[r][k].elements,
                             from_field |-> body[r][k].from_field,
                             origin |-> << r, k >>]]]
          /\ selections = original
          /\ target \in {t \in 1 .. MaxSplitTarget :
                            ReduceSum([r \in Ranks |-> Len(body[r])]) <= t}
    /\ pc = [r \in Ranks |-> "split"]
    /\ IdleRun
    /\ options = [r \in Ranks |-> NoTarget]
    /\ value = [r \in Ranks |-> NoValue]
    /\ retval = [r \in Ranks |-> NoValue]
    /\ sel_rank = [r \in Ranks |-> NoValue]
    /\ sel_index = [r \in Ranks |-> NoValue]
    /\ contrib = [r \in Ranks |-> NoValue]
    /\ departed = {}

SplitStep(r) ==
    \/ GetTotalSelectionsEnter(r)
    \/ GetTotalSelectionsReturn(r)
    \/ GetLargestSelectionEnter(r)
    \/ GetLargestSelectionReturn(r)
    \/ ReplaceSelection(r)

NextSplit == \E r \in Ranks : SplitStep(r)

SpecSplit == InitSplit /\ [][NextSplit]_vars

\* Every rank that can take a step of split_selections takes it.
FairSpecSplit == SpecSplit /\ \A r \in Ranks : WF_vars(SplitStep(r))

(***************************************************************************)
(* count_targets, lines 89-138.                                            *)
(***************************************************************************)
\* Lines 109-111: the destination domains of the local selections.
LocalDD(sels) == [i \in 0 .. (Len(sels) - 1) |-> sels[i + 1].destination_domain]

\* MPI_Allgatherv, lines 115-123: global_dd on every rank, rank r's local_dd
\* at offsets[r].
GlobalDD(sel) ==
    LET n == [r \in Ranks |-> Len(sel[r])]
        off == Offsets(n)
    IN  [g \in 0 .. (NTotalChunks(n) - 1) |->
            LET r == CHOOSE q \in Ranks : off[q] <= g /\ g < off[q] + n[q]
            IN  LocalDD(sel[r])[g - off[r]]]

\* Mutant: a named domain is counted every time it is met.
CountTargetsStepEachNamed(gdd, i, st) ==
    [st EXCEPT !.free_domains = @ + 1]

\* Lines 128-134: one more free domain, or the id into named_domains.
CountTargetsStep(gdd, i, st) ==
    IF gdd[i] = FREE_DOMAIN_ID
    THEN [st EXCEPT !.free_domains = @ + 1]
    ELSE [st EXCEPT !.named_domains = @ \cup {gdd[i]}]

RECURSIVE CountTargetsFrom(_, _, _)
CountTargetsFrom(gdd, i, st) ==
    IF i >= VecLen(gdd) THEN st
    ELSE Only({CountTargetsFrom(gdd, i + 1, nxt) :
                  nxt \in {CountTargetsStep(gdd, i, st)}})

\* Lines 126-137: n = free_domains + named_domains.size().
CountTargetsOf(gdd) ==
    Only({st.free_domains + Cardinality(st.named_domains) :
             st \in {CountTargetsFrom(gdd, 0, [free_domains |-> 0, named_domains |-> {}])}})

\* Lines 92-96: the rank enters MPI_Allgather with its number of selections.
CountTargetsGather(r) ==
    /\ pc[r] = "count"
    /\ CollEnter(r, Len(selections[r]))
    /\ pc' = [pc EXCEPT ![r] = "count_gather"]
    /\ UNCHANGED << target, chunks, eager, entered, dest_rank, dest_domain, offsets,
                    ops, chunks_to_assemble, chunks_to_assemble_domains, node_domains,
                    reqs, net, prev, maplocals, chunk_mesh, freed, options, value,
                    retval, original, selections, sel_rank, sel_index >>

\* Lines 96-111: MPI_Allgather returns; totals, offsets and local_dd.
CountTargetsGathered(r) ==
    /\ pc[r] = "count_gather"
    /\ CollReady(r)
    /\ CollLeave(r)
    /\ pc' = [pc EXCEPT ![r] = "count_local"]
    /\ UNCHANGED << target, chunks, eager, entered, dest_rank, dest_domain, offsets,
                    ops, chunks_to_assemble, chunks_to_assemble_domains, node_domains,
                    reqs, net, prev, maplocals, chunk_mesh, freed, options, value,
                    retval, original, selections, sel_rank, sel_index >>

\* Lines 115-123: the rank enters MPI_Allgatherv with local_dd.  The data
\* gathered are read from the selections, which do not change meanwhile.
CountTargetsGatherv(r) ==
    /\ pc[r] = "count_local"
    /\ CollEnter(r, Len(selections[r]))
    /\ pc' = [pc EXCEPT ![r] = "count_gatherv"]
    /\ UNCHANGED << target, chunks, eager, entered, dest_rank, dest_domain, offsets,
                    ops, chunks_to_assemble, chunks_to_assemble_domains, node_domains,
                    reqs, net, prev, maplocals, chunk_mesh, freed, options, value,
                    retval, original, selections, sel_rank, sel_index >>

\* Line 116: &local_dd[0] with no local selection is operator[] on an empty
\* vector, undefined behaviour: the address is formed and never read (the
\* step above), or a library that checks the index ends the process.
CountTargetsEmptyVector(r) ==
    /\ pc[r] = "count_local"
    /\ Len(selections[r]) = 0
    /\ pc' = [pc EXCEPT ![r] = "aborted"]
    /\ UNCHANGED << target, chunks, eager, entered, dest_rank, dest_domain, offsets,
                    ops, chunks_to_assemble, chunks_to_assemble_domains, node_domains,
                    reqs, net, prev, maplocals, chunk_mesh, freed, options, value,
                    retval, original, selections, sel_rank, sel_index, contrib, departed >>

\* Lines 123-137: MPI_Allgatherv returns; count_targets returns n.
CountTargetsReturn(r) ==
    /\ pc[r] = "count_gatherv"
    /\ CollReady(r)
    /\ \E n \in {CountTargetsOf(GlobalDD(selections))} :
          value' = [value EXCEPT ![r] = n]
    /\ CollLeave(r)
    /\ pc' = [pc EXCEPT ![r] = "split"]
    /\ UNCHANGED << target, chunks, eager, entered, dest_rank, dest_domain, offsets,
                    ops, chunks_to_assemble, chunks_to_assemble_domains, node_domains,
                    reqs, net, prev, maplocals, chunk_mesh, freed, options,
                    retval, original, selections, sel_rank, sel_index >>

(***************************************************************************)
(* The front of partitioner::execute: count_targets, split_selections, the *)
(* extraction of one chunk per selection, the gathers of map_chunks.       *)
(***************************************************************************)
\* The chunk extracted for a selection: its elements, its destinations.
ExtractChunk(sel) ==
    [num_elements |-> Length(sel),
     destination_rank |-> FREE_RANK_ID,
     destination_domain |-> sel.destination_domain]

Extract(r) ==
    /\ pc[r] = "split_done"
    /\ chunks' = [chunks EXCEPT
                     ![r] = [i \in 0 .. (Len(selections[r]) - 1) |->
                                ExtractChunk(selections[r][i + 1])]]
    /\ pc' = [pc EXCEPT ![r] = "start"]
    /\ UNCHANGED << target, eager, entered, dest_rank, dest_domain, offsets,
                    ops, chunks_to_assemble, chunks_to_assemble_domains, node_domains,
                    reqs, net, prev, maplocals, chunk_mesh, freed, options, value,
                    retval, original, selections, sel_rank, sel_index, contrib, departed >>

\* Line 299: &local_chunk_info[0] with no local chunk, as at line 116.
MapChunksEmptyVector(r) ==
    /\ pc[r] = "start"
    /\ VecLen(chunks[r]) = 0
    /\ pc' = [pc EXCEPT ![r] = "aborted"]
    /\ UNCHANGED << inputs, entered, dest_rank, dest_domain, offsets, ops,
                    chunks_to_assemble, chunks_to_assemble_domains, node_domains,
                    reqs, net, prev, maplocals, rest >>

\* The selections of the options: up to MaxSel over all ranks, of 0..NElems
\* elements, with a FREE or a fixed destination domain.
InitFront ==
    /\ \E body \in {b \in [Ranks -> UNION {[1 .. k ->
                             [elements : {[i \in 1 .. n |-> i - 1] : n \in 0 .. NElems},
                              from_field : BOOLEAN,
                              destination_domain : {FREE_DOMAIN_ID} \cup (0 .. MaxDomId)]] :
                                             k \in 0 .. MaxSel}] :
                       ReduceSum([r \in Ranks |-> Len(b[r])]) <= MaxSel} :
          /\ original = [r \in Ranks |-> [k \in 1 .. Len(body[r]) |->
                            [elements |-> body[r][k].elements,
                             from_field |-> body[r][k].from_field,
                             destination_domain |-> body[r][k].destination_domain,
                             origin |-> << r, k >>]]]
          /\ selections = original
          /\ target \in {t \in 1 .. MaxSplitTarget :
                            ReduceSum([r \in Ranks |-> Len(body[r])]) <= t}
    /\ pc = [r \in Ranks |-> "count"]
    /\ IdleRun
    /\ options = [r \in Ranks |-> NoTarget]
    /\ value = [r \in Ranks |-> NoValue]
    /\ retval = [r \in Ranks |-> NoValue]
    /\ sel_rank = [r \in Ranks |-> NoValue]
    /\ sel_index = [r \in Ranks |-> NoValue]
    /\ contrib = [r \in Ranks |-> NoValue]
    /\ departed = {}

FrontStep(r) ==
    \/ CountTargetsGather(r)
    \/ CountTargetsGathered(r)
    \/ CountTargetsGatherv(r)
    \/ CountTargetsEmptyVector(r)
    \/ CountTargetsReturn(r)
    \/ SplitStep(r)
    \/ Extract(r)
    \/ MapChunksEmptyVector(r)
    \/ EnterGather(r)
    \/ MapChunks(r)

NextFront == \E r \in Ranks : FrontStep(r)

SpecFront == InitFront /\ [][NextFront]_vars

(***************************************************************************)
(* Properties of count_targets.                                            *)
(***************************************************************************)
\* count_targets has returned on rank r.
Counted(r) ==
    pc[r] \notin {"count", "count_gather", "count_local", "count_gatherv", "aborted"}

\* The selections of the options over all ranks, as (rank, index).
OptionSelections == {rk \in Ranks \X (1 .. MaxSel) : rk[2] \in DOMAIN original[rk[1]]}

FreeDomainSelections ==
    {rk \in OptionSelections : original[rk[1]][rk[2]].destination_domain = FREE_DOMAIN_ID}

NamedDomains ==
    {original[rk[1]][rk[2]].destination_domain : rk \in OptionSelections \ FreeDomainSelections}

\* C26: on every rank count_targets returns the number of selections with a
\* FREE destination domain plus the number of distinct fixed destination
\* domains, over the selections of all ranks.
C26_CountTargets ==
    \A r \in Ranks : Counted(r) =>
        value[r] = Cardinality(FreeDomainSelections) + Cardinality(NamedDomains)

\* Witnesses: count_targets returned on all ranks, with two selections on
\* different ranks that name the same domain (they count once).
C26_Witness ==
    /\ \A r \in Ranks : Counted(r) /\ Len(original[r]) = 1
    /\ original[0][1].destination_domain = original[1][1].destination_domain
    /\ original[0][1].destination_domain # FREE_DOMAIN_ID
    /\ \A r \in Ranks : value[r] = 1

(***************************************************************************)
(* Properties of options_get_target.                                       *)
(***************************************************************************)
\* The targets that the ranks supply, 0 for a rank that supplies none.
Supplied == {IF options[q] = NoTarget THEN 0 ELSE options[q] : q \in Ranks}

\* C12: on every rank options_get_target yields the maximum over the ranks of
\* the supplied targets, a rank without a target counting as 0, and returns
\* true exactly when that maximum is greater than 0.
C12_TargetMax ==
    \A r \in Ranks : pc[r] = "target_done" =>
        /\ value[r] \in Supplied
        /\ \A t \in Supplied : value[r] >= t
        /\ retval[r] = (\E t \in Supplied : t > 0)

\* Both ranks returned; one supplied no target, the other a positive one.
C12_Witness ==
    /\ \A r \in Ranks : pc[r] = "target_done"
    /\ \E r \in Ranks : options[r] = NoTarget
    /\ \E r \in Ranks : options[r] # NoTarget /\ value[r] = options[r] /\ value[r] > 0

(***************************************************************************)
(* Properties of map_chunks.                                               *)
(***************************************************************************)
Mapped(r) == pc[r] \notin {"start", "gather"}

GInfo == GlobalChunkInfo(chunks)
NTotal == NTotalChunks(NGlobalChunks(chunks))
GlobalIds == 0 .. (NTotal - 1)

\* The fixed (not FREE) destination domains of the input.
FixedDomains == ReservedDD(GInfo)
FreeDomainChunks == {i \in GlobalIds : GInfo[i].destination_domain = FREE_DOMAIN_ID}
FreeRankChunks == {i \in GlobalIds : GInfo[i].destination_rank = FREE_RANK_ID}

Max(a, b) == IF a >= b THEN a ELSE b

\* C1: after map_chunks, chunks with equal destination domains have equal
\* destination ranks, whatever mix of FREE and fixed domains and ranks came in.
C1_EqualDomainEqualRank ==
    \A r \in Ranks : Mapped(r) =>
        \A i, j \in DOMAIN dest_domain[r] :
            dest_domain[r][i] = dest_domain[r][j] => dest_rank[r][i] = dest_rank[r][j]

\* C2: after map_chunks every global chunk has a destination domain and a
\* destination rank that are not FREE.
C2_AllConcrete ==
    \A r \in Ranks : Mapped(r) =>
        /\ DOMAIN dest_rank[r] = GlobalIds
        /\ DOMAIN dest_domain[r] = GlobalIds
        /\ \A i \in GlobalIds :
              /\ dest_domain[r][i] # FREE_DOMAIN_ID
              /\ dest_rank[r][i] # FREE_RANK_ID

\* A rank has mapped chunks that came in with a FREE domain and a FREE rank.
C2_Witness ==
    \E r \in Ranks :
        /\ Mapped(r)
        /\ \E i \in GlobalIds : i \in FreeDomainChunks /\ i \in FreeRankChunks
        /\ \E i \in GlobalIds : i \notin FreeDomainChunks /\ i \in FreeRankChunks
        /\ \E i \in GlobalIds : i \in FreeDomainChunks /\ i \notin FreeRankChunks

OutputDomains(r) == {dest_domain[r][i] : i \in DOMAIN dest_domain[r]}
EffectiveTarget == Max(target, Cardinality(FixedDomains))

\* C3 as stated: the number of distinct destination domains carried by the
\* chunks after mapping is max(target, number of fixed destination domains).
\* (Stated for the runs that have a chunk at all.)
C3_Original ==
    \A r \in Ranks : (Mapped(r) /\ NTotal >= 1) =>
        Cardinality(OutputDomains(r)) = EffectiveTarget

\* C3 amended: the number of distinct destination domains carried by the chunks
\* after mapping is at most max(target, number of fixed destination domains),
\* and equal to it when every chunk has at least one element and the chunks
\* with a FREE domain are at least as many as the domains map_chunks creates.
C3_OutputDomainCount ==
    \A r \in Ranks : Mapped(r) =>
        /\ Cardinality(OutputDomains(r)) <= EffectiveTarget
        /\ ( /\ \A i \in GlobalIds : GInfo[i].num_elements >= 1
             /\ Cardinality(FreeDomainChunks)
                    >= EffectiveTarget - Cardinality(FixedDomains) )
           => Cardinality(OutputDomains(r)) = EffectiveTarget

\* Mapped: a fixed domain, a created one, FREE chunks enough to fill it.
C3_Witness ==
    \E r \in Ranks :
        /\ Mapped(r)
        /\ Cardinality(FixedDomains) = 1
        /\ target = 2
        /\ Cardinality(FreeDomainChunks) = 2
        /\ \A i \in GlobalIds : GInfo[i].num_elements >= 1
        /\ Cardinality(OutputDomains(r)) = 2


\* The elements of the chunks S.
RECURSIVE SumElems(_, _)
SumElems(info, S) ==
    IF S = {} THEN 0
    ELSE LET i == CHOOSE x \in S : TRUE
         IN  info[i].num_elements + SumElems(info, S \ {i})

UniformSizes == \A i, j \in GlobalIds : GInfo[i].num_elements = GInfo[j].num_elements
LargestChunk ==
    IF GlobalIds = {} THEN 0
    ELSE LET i == CHOOSE x \in GlobalIds :
                      \A y \in GlobalIds : GInfo[x].num_elements >= GInfo[y].num_elements
         IN  GInfo[i].num_elements

\* C16: when every chunk has a FREE destination domain and all chunks have the
\* same size, the element counts of any two destination domains differ, after
\* the domains are assigned, by at most the size of the largest chunk.
C16_Balance ==
    \A r \in Ranks :
        (Mapped(r) /\ FreeDomainChunks = GlobalIds /\ UniformSizes) =>
            \A d1, d2 \in DOMAIN domain_elem_counts[r] :
                domain_elem_counts[r][d1] - domain_elem_counts[r][d2] <= LargestChunk

\* Three chunks of two elements or more were put in two domains.
C16_Witness ==
    \E r \in Ranks :
        /\ Mapped(r) /\ UniformSizes /\ NTotal = 3 /\ LargestChunk >= 2
        /\ target = 2
        /\ \E d1, d2 \in DOMAIN domain_elem_counts[r] :
              domain_elem_counts[r][d1] - domain_elem_counts[r][d2] = LargestChunk

\* C17: when there are more reserved destination domains than target,
\* map_chunks creates no domain, puts every FREE chunk in a reserved domain
\* and still gives every chunk a domain and a rank.
C17_ReservedExceedTarget ==
    \A r \in Ranks :
        (Mapped(r) /\ Cardinality(FixedDomains) > target) =>
            /\ reserved_dd[r] = FixedDomains
            /\ DOMAIN domain_elem_counts[r] = FixedDomains
            /\ \A i \in GlobalIds :
                  /\ dest_domain[r][i] \in FixedDomains
                  /\ dest_rank[r][i] \in Ranks

\* Mapped with two reserved domains, target 1 and a chunk with a FREE domain.
C17_Witness ==
    \E r \in Ranks :
        /\ Mapped(r)
        /\ Cardinality(FixedDomains) = 2 /\ target = 1
        /\ FreeDomainChunks # {}

\* The domains that map_chunks created on rank r.
CreatedDomains(r) == reserved_dd[r] \ FixedDomains

\* C20: when there are at most target reserved destination domains,
\* map_chunks creates target - |R| domains, each the smallest non-negative
\* integer that is not reserved when it is created, each with a count that
\* starts at 0 (so that its count is that of the FREE chunks put in it).
C20_CreatedDomains ==
    \A r \in Ranks :
        (Mapped(r) /\ Cardinality(FixedDomains) <= target) =>
            /\ FixedDomains \subseteq reserved_dd[r]
            /\ Cardinality(CreatedDomains(r)) = target - Cardinality(FixedDomains)
            /\ \A d \in CreatedDomains(r) :
                  /\ d >= 0
                  /\ \A n \in 0 .. (d - 1) : n \in reserved_dd[r]
                  /\ d \in DOMAIN domain_elem_counts[r]
                  /\ domain_elem_counts[r][d] =
                        SumElems(GInfo, {i \in FreeDomainChunks : dest_domain[r][i] = d})

\* Mapped with domain 1 reserved and target 2: domain 0 was created and a
\* FREE chunk with elements was put in it.
C20_Witness ==
    \E r \in Ranks :
        /\ Mapped(r)
        /\ FixedDomains = {1} /\ target = 2
        /\ CreatedDomains(r) = {0}
        /\ domain_elem_counts[r][0] >= 1


\* The elements of the chunks that name domain d themselves.
NamedCount(d) ==
    SumElems(GInfo, {i \in GlobalIds \ FreeDomainChunks : GInfo[i].destination_domain = d})

\* The count of domain d when the loop of lines 403-419 comes to chunk i: the
\* named chunks of d and the FREE chunks below i that were put in d.
RunningDomainCount(r, d, i) ==
    NamedCount(d) +
    SumElems(GInfo, {j \in FreeDomainChunks : j < i /\ dest_domain[r][j] = d})

\* C21: every chunk with a FREE destination domain is in the domain whose
\* count was the least when the chunks below it had been placed, the lowest id
\* among equal counts, and the count of a domain at the end is that of all the
\* chunks placed in it.
C21_FreeDomainLeastCount ==
    \A r \in Ranks : Mapped(r) =>
        /\ \A i \in FreeDomainChunks :
              /\ dest_domain[r][i] \in DOMAIN domain_elem_counts[r]
              /\ \A e \in DOMAIN domain_elem_counts[r] :
                    \/ RunningDomainCount(r, dest_domain[r][i], i) < RunningDomainCount(r, e, i)
                    \/ /\ RunningDomainCount(r, dest_domain[r][i], i) = RunningDomainCount(r, e, i)
                       /\ dest_domain[r][i] <= e
        /\ \A d \in DOMAIN domain_elem_counts[r] :
              domain_elem_counts[r][d] = RunningDomainCount(r, d, NTotal)

\* Witness: three FREE chunks with an element each and two domains; the
\* first goes to domain 0 on a tie, the second to domain 1, the least, the
\* third to domain 0 on a tie again.
C21_Witness ==
    \E r \in Ranks :
        /\ Mapped(r) /\ NTotal = 3 /\ FreeDomainChunks = GlobalIds
        /\ \A i \in GlobalIds : GInfo[i].num_elements = 1
        /\ DOMAIN domain_elem_counts[r] = {0, 1}
        /\ dest_domain[r][0] = 0 /\ dest_domain[r][1] = 1 /\ dest_domain[r][2] = 0

\* The domains that have a chunk with a FREE rank, after the domains were
\* assigned.
FreeRankDomains(r) == {dest_domain[r][i] : i \in FreeRankChunks}

\* Domain d is placed before domain e: the larger total first (the walk of
\* lines 456-457 takes, of equal totals, the higher id first).
PlacedBefore(r, d, e) ==
    \/ domain_elem_counts[r][d] > domain_elem_counts[r][e]
    \/ domain_elem_counts[r][d] = domain_elem_counts[r][e] /\ d > e

\* The rank that the chunks of domain d carry.
RankOf(r, d) == dest_rank[r][CHOOSE i \in GlobalIds : dest_domain[r][i] = d]

\* The sum of the totals of the domains S.
RECURSIVE SumTotals(_, _)
SumTotals(counts, S) ==
    IF S = {} THEN 0
    ELSE LET d == CHOOSE x \in S : TRUE
         IN  counts[d] + SumTotals(counts, S \ {d})

\* The elements of the chunks that name rank q themselves.
FixedRankCount(q) ==
    SumElems(GInfo, {i \in GlobalIds \ FreeRankChunks : GInfo[i].destination_rank = q})

\* The count of rank q when domain d is placed (S: the domains placed by then).
RunningRankCount(r, q, S) ==
    FixedRankCount(q) +
    SumTotals(domain_elem_counts[r], {e \in S : RankOf(r, e) = q})

\* C22: the domains with a FREE-rank chunk are placed by descending total;
\* every chunk of such a domain carries one rank, the rank whose count was
\* the least when the domains before it had been placed (lowest rank among
\* equal counts), and the count of a rank at the end is that of its fixed
\* chunks plus the totals of the domains placed on it.
C22_FreeRankLeastCount ==
    \A r \in Ranks : Mapped(r) =>
        /\ \A d \in FreeRankDomains(r) :
              /\ \A i \in GlobalIds : dest_domain[r][i] = d => dest_rank[r][i] = RankOf(r, d)
              /\ \E before \in {{e \in FreeRankDomains(r) : PlacedBefore(r, e, d)}} :
                    \A q \in Ranks :
                        \/ RunningRankCount(r, RankOf(r, d), before) <
                              RunningRankCount(r, q, before)
                        \/ /\ RunningRankCount(r, RankOf(r, d), before) =
                                 RunningRankCount(r, q, before)
                           /\ RankOf(r, d) <= q
        /\ \A q \in Ranks :
              rank_elem_counts[r][q] = RunningRankCount(r, q, FreeRankDomains(r))

\* Witness: two domains with a FREE-rank chunk and different totals; the
\* larger went to rank 0, the smaller to rank 1, and a chunk that named
\* another rank carries the rank of its domain.
C22_Witness ==
    \E r \in Ranks :
        /\ Mapped(r)
        /\ \E d, e \in FreeRankDomains(r) :
              /\ domain_elem_counts[r][d] > domain_elem_counts[r][e]
              /\ domain_elem_counts[r][e] >= 1
              /\ d < e
              /\ RankOf(r, d) = 0 /\ RankOf(r, e) = 1
        /\ \E i \in GlobalIds \ FreeRankChunks :
              /\ dest_domain[r][i] \in FreeRankDomains(r)
              /\ dest_rank[r][i] # GInfo[i].destination_rank

\* C23: after map_chunks the vectors dest_rank, dest_domain and offsets are
\* the same on every rank; dest_rank and dest_domain have an entry for every
\* global chunk and offsets one for every rank.
C23_RanksAgree ==
    \A r \in Ranks : Mapped(r) =>
        /\ DOMAIN dest_rank[r] = GlobalIds
        /\ DOMAIN dest_domain[r] = GlobalIds
        /\ DOMAIN offsets[r] = Ranks
        /\ \A q \in Ranks : Mapped(q) =>
              /\ dest_rank[q] = dest_rank[r]
              /\ dest_domain[q] = dest_domain[r]
              /\ offsets[q] = offsets[r]

\* Witness: all ranks mapped, every rank holds a chunk, different chunks on
\* different ranks, and a chunk got its domain and its rank from map_chunks.
C23_Witness ==
    /\ \A r \in Ranks : Mapped(r) /\ VecLen(chunks[r]) >= 1
    /\ chunks[0] # chunks[1]
    /\ \E i \in GlobalIds : i \in FreeDomainChunks /\ i \in FreeRankChunks

\* C31: after map_chunks every chunk that came in with a destination domain
\* that is not FREE has that destination domain.
C31_FixedDomainKept ==
    \A r \in Ranks : Mapped(r) =>
        \A i \in GlobalIds \ FreeDomainChunks :
            dest_domain[r][i] = GInfo[i].destination_domain

\* Mapped: a chunk kept its domain 1 although domain 0 had fewer elements
\* when the chunks with a FREE domain were assigned, one of them to domain 0.
C31_Witness ==
    \E r \in Ranks :
        /\ Mapped(r)
        /\ \E i \in GlobalIds \ FreeDomainChunks :
              /\ GInfo[i].destination_domain = 1
              /\ GInfo[i].num_elements >= 1
              /\ dest_domain[r][i] = 1
        /\ \E j \in FreeDomainChunks : dest_domain[r][j] = 0

\* C32 as stated: after map_chunks every chunk that came in with a
\* destination rank that is not FREE has that destination rank.
C32_FixedRankKept ==
    \A r \in Ranks : Mapped(r) =>
        \A i \in GlobalIds \ FreeRankChunks :
            dest_rank[r][i] = GInfo[i].destination_rank

\* C32, amended: after map_chunks a chunk that came in with a destination rank
\* that is not FREE has that rank if no chunk of its destination domain came
\* in with a FREE rank; otherwise it has the rank map_chunks gave its domain,
\* as every chunk of that domain has.
C32_FixedRankKeptUnlessShared ==
    \A r \in Ranks : Mapped(r) =>
        \A i \in GlobalIds \ FreeRankChunks :
            IF dest_domain[r][i] \in FreeRankDomains(r)
            THEN \A j \in GlobalIds :
                    dest_domain[r][j] = dest_domain[r][i] => dest_rank[r][j] = dest_rank[r][i]
            ELSE dest_rank[r][i] = GInfo[i].destination_rank

\* Mapped: a chunk that named rank 1 was moved to rank 0 with a FREE-rank
\* chunk of its domain, and a chunk of another domain kept the rank 1 it named.
C32_Witness ==
    \E r \in Ranks :
        /\ Mapped(r)
        /\ \E i \in GlobalIds \ FreeRankChunks :
              /\ dest_domain[r][i] \in FreeRankDomains(r)
              /\ GInfo[i].destination_rank = 1
              /\ dest_rank[r][i] = 0
        /\ \E i \in GlobalIds \ FreeRankChunks :
              /\ dest_domain[r][i] \notin FreeRankDomains(r)
              /\ GInfo[i].destination_rank = 1
              /\ dest_rank[r][i] = 1

\* C33: after map_chunks every destination rank is a rank of the group:
\* 0 <= dest_rank[i] < size for every global chunk i.
C33_RanksExist ==
    \A r \in Ranks : Mapped(r) =>
        \A i \in GlobalIds : 0 <= dest_rank[r][i] /\ dest_rank[r][i] < size

\* C34: at the end of map_chunks the tally of every rank in rank_elem_counts
\* is the sum of num_elements over the chunks whose destination rank is that
\* rank.
C34_RankTallyExact ==
    \A r \in Ranks : Mapped(r) =>
        \A q \in Ranks :
            rank_elem_counts[r][q] =
                SumElems(GInfo, {i \in GlobalIds : dest_rank[r][i] = q})

\* The chunk counts in S, taken twice in T too, add up to tally: the sums are
\* compared by quotient and remainder of 2^30, which are small numbers.
RECURSIVE SumQuot(_, _)
SumQuot(info, S) ==
    IF S = {} THEN 0
    ELSE LET i == CHOOSE x \in S : TRUE
         IN  (info[i].num_elements \div BigElems) + SumQuot(info, S \ {i})

RECURSIVE SumRem(_, _)
SumRem(info, S) ==
    IF S = {} THEN 0
    ELSE LET i == CHOOSE x \in S : TRUE
         IN  (info[i].num_elements % BigElems) + SumRem(info, S \ {i})

IsExactSum(tally, S, T) ==
    LET quot == SumQuot(GInfo, S) + SumQuot(GInfo, T)
        rem == SumRem(GInfo, S) + SumRem(GInfo, T)
    IN  /\ tally >= 0
        /\ tally \div BigElems = quot + (rem \div BigElems)
        /\ tally % BigElems = rem % BigElems

\* C35: after map_chunks no tally is negative, the tally of every domain is
\* the exact sum of the element counts of its chunks, and the tally of every
\* rank is the exact sum of the counts that were added to it (those of the
\* chunks that named it and those of the domains placed on it).
C35_TalliesExact ==
    \A r \in Ranks : Mapped(r) =>
        /\ \A d \in DOMAIN domain_elem_counts[r] :
              IsExactSum(domain_elem_counts[r][d],
                         {i \in GlobalIds : dest_domain[r][i] = d}, {})
        /\ \A q \in Ranks :
              IsExactSum(rank_elem_counts[r][q],
                         {i \in GlobalIds \ FreeRankChunks : GInfo[i].destination_rank = q},
                         {i \in GlobalIds : /\ dest_domain[r][i] \in FreeRankDomains(r)
                                            /\ dest_rank[r][i] = q})

(***************************************************************************)
(* Properties of communicate_chunks.                                       *)
(***************************************************************************)
TrueOffsets == Offsets(NGlobalChunks(chunks))

\* The global index of the chunk whose data a node holds.
GlobalIndexOf(node) ==
    LET c == CHOOSE x \in node.data : TRUE IN TrueOffsets[c[1]] + c[2]

Returned(r) == pc[r] = "done"
Posted(r) == pc[r] \in {"layout", "payload", "done"}

Slots == {<< r, k >> \in Ranks \X (1 .. MaxChunks) : k <= Len(chunks_to_assemble[r])}

\* Where the data of local chunk i of rank q is held.
Holders(q, i) == {h \in Slots : chunks_to_assemble[h[1]][h[2]].data = {<< q, i >>}}

AssembledDomains(r) ==
    {chunks_to_assemble_domains[r][k] : k \in DOMAIN chunks_to_assemble_domains[r]}

\* Some chunk leaves rank s for rank d.
Moves(s, d) ==
    \E i \in DOMAIN chunks[s] : dest_rank[s][TrueOffsets[s] + i] = d

\* C4: every destination domain that a chunk maps to is assembled on exactly
\* one rank.
C4_OneRankPerDomain ==
    AllDone =>
        \A d \in UNION {AssembledDomains(r) : r \in Ranks} :
            Cardinality({r \in Ranks : d \in AssembledDomains(r)}) = 1

\* C5: when communicate_chunks has returned on all ranks, every global chunk is
\* held exactly once over all chunks_to_assemble, on its destination rank, and
\* nothing else is held.
C5_Conservation ==
    AllDone =>
        /\ \A q \in Ranks : \A i \in DOMAIN chunks[q] :
              /\ Cardinality(Holders(q, i)) = 1
              /\ \A h \in Holders(q, i) : h[1] = dest_rank[q][TrueOffsets[q] + i]
        /\ Cardinality(Slots) = NTotal

\* All ranks returned; a chunk moved each way and a chunk stayed.
C5_Witness ==
    /\ AllDone
    /\ Moves(0, 1) /\ Moves(1, 0)
    /\ \E r \in Ranks : Moves(r, r)

SendsOf(r) == {i \in DOMAIN ops[r] : ops[r][i].op = "send"}
RecvsOf(r) == {i \in DOMAIN ops[r] : ops[r][i].op = "recv"}

\* C6: every posted send has exactly one posted receive on its destination
\* rank, from its rank and with its tag, every posted receive has exactly one
\* such send, and the tag of a send is BASE + the global index of its chunk,
\* so that no two sends share a tag.
C6_Paired ==
    /\ \A s, d \in Ranks : (Posted(s) /\ Posted(d)) =>
          /\ \A i \in SendsOf(s) : ops[s][i].peer = d =>
                Cardinality({j \in RecvsOf(d) : Matches(s, ops[s][i], d, ops[d][j])}) = 1
          /\ \A j \in RecvsOf(d) : ops[d][j].peer = s =>
                Cardinality({i \in SendsOf(s) : Matches(s, ops[s][i], d, ops[d][j])}) = 1
    /\ \A s \in Ranks : Posted(s) =>
          /\ \A i \in SendsOf(s) :
                /\ ops[s][i].tag = PARTITION_TAG_BASE + TrueOffsets[s] + ops[s][i].ref
                /\ ops[s][i].peer \in Ranks \ {s}
          /\ \A j \in RecvsOf(s) : ops[s][j].peer \in Ranks \ {s}
    /\ \A s, t \in Ranks : (Posted(s) /\ Posted(t)) =>
          \A i \in SendsOf(s), j \in SendsOf(t) :
              ops[s][i].tag = ops[t][j].tag => (s = t /\ i = j)

\* Both ranks have posted; each sends to the other, rank 1 more than once.
C6_Witness ==
    /\ \A r \in Ranks : Posted(r)
    /\ SendsOf(0) # {} /\ Cardinality(SendsOf(1)) >= 2

\* C7: under fair scheduling and delivery every rank returns from
\* communicate_chunks.
C7_Completes == <>AllDone

\* All ranks returned from a cyclic exchange: 0 sent to 1 and 1 sent to 0.
C7_Witness ==
    /\ AllDone
    /\ SendsOf(0) # {} /\ SendsOf(1) # {}
    /\ RecvsOf(0) # {} /\ RecvsOf(1) # {}

\* C8: on a rank that returned, chunks_to_assemble holds the chunks destined
\* for the rank, local and received alike, in strictly ascending global index.
C8_Ascending ==
    \A r \in Ranks : Returned(r) =>
        /\ \A k1, k2 \in DOMAIN chunks_to_assemble[r] : k1 < k2 =>
              GlobalIndexOf(chunks_to_assemble[r][k1])
                  < GlobalIndexOf(chunks_to_assemble[r][k2])
        /\ {GlobalIndexOf(chunks_to_assemble[r][k]) : k \in DOMAIN chunks_to_assemble[r]}
              = {g \in GlobalIds : dest_rank[r][g] = r}

\* Rank 1 returned with a received chunk followed by two local ones.
C8_Witness ==
    /\ Returned(1)
    /\ Len(chunks_to_assemble[1]) = 3
    /\ DOMAIN node_domains[1] = {1}

\* C9: a second run on the same inputs leaves on every rank the dest_rank and
\* dest_domain vectors and the chunks_to_assemble contents, order and domain
\* ids of the first run, whatever the order in which the requests complete.
C9_Deterministic ==
    \A r \in Ranks : (Returned(r) /\ prev # << >>) => Outputs[r] = prev[1][r]

\* A second run returned everywhere, with two chunks received by one rank.
C9_Witness ==
    /\ AllDone /\ prev # << >>
    /\ \E r \in Ranks : Cardinality(RecvsOf(r)) >= 2
    /\ \E r \in Ranks : SendsOf(r) # {} /\ RecvsOf(r) # {}

\* C10: when communicate_chunks has returned, chunks_to_assemble and
\* chunks_to_assemble_domains have the same length, and every chunk, local or
\* received, has state/domain_id equal to its assigned destination domain,
\* which is its entry of chunks_to_assemble_domains.
C10_DomainIds ==
    \A r \in Ranks : Returned(r) =>
        /\ Len(chunks_to_assemble[r]) = Len(chunks_to_assemble_domains[r])
        /\ \A k \in DOMAIN chunks_to_assemble[r] :
              /\ chunks_to_assemble[r][k].domain_id = {chunks_to_assemble_domains[r][k]}
              /\ chunks_to_assemble_domains[r][k]
                    = dest_domain[r][GlobalIndexOf(chunks_to_assemble[r][k])]

\* A rank returned with a received and a local chunk whose own domain ids
\* were not their destination domains.
C10_Witness ==
    \E r \in Ranks :
        /\ Returned(r)
        /\ \E k \in DOMAIN node_domains[r] :
              GlobalIndexOf(chunks_to_assemble[r][k]) # node_domains[r][k]
        /\ \E k \in DOMAIN chunks_to_assemble[r] :
              /\ k \notin DOMAIN node_domains[r]
              /\ GlobalIndexOf(chunks_to_assemble[r][k]) # chunks_to_assemble_domains[r][k]


\* C18: at every point of communicate_chunks the mesh of every chunk the rank
\* was given is as extraction left it, state/domain_id and children; the
\* destination domain of a chunk that stays is in its wrapper only.
C18_ChunksNotMutated ==
    \A r \in Ranks : \A i \in DOMAIN chunks[r] :
        chunk_mesh[r][i] = ChunkMesh(chunks, r, i)

\* Witness: communicate_chunks returned and a chunk that stayed has a wrapper
\* in chunks_to_assemble with its children and a domain id other than its own.
C18_Witness ==
    \E r \in Ranks : \E i \in DOMAIN chunks[r] :
        /\ pc[r] = "done"
        /\ dest_rank[r][offsets[r][r] + i] = r
        /\ dest_domain[r][offsets[r][r] + i] \notin chunk_mesh[r][i].domain_id
        /\ \E k \in DOMAIN chunks_to_assemble[r] :
              /\ chunks_to_assemble[r][k].data = chunk_mesh[r][i].data
              /\ chunks_to_assemble[r][k].domain_id = {dest_domain[r][offsets[r][r] + i]}

\* Node k of chunks_to_assemble on rank q is the wrapper of local chunk i of
\* rank r: it is on the rank of the chunk, is not a receive node and has the
\* children of the chunk by reference.
Borrows(q, k, r, i) ==
    /\ q = r
    /\ k \in DOMAIN chunks_to_assemble[q]
    /\ k \notin DOMAIN node_domains[q]
    /\ chunks_to_assemble[q][k].data = chunk_mesh[r][i].data

\* A send of local chunk i of rank r has not completed.
SendPending(r, i) ==
    \E j \in reqs[r] : ops[r][j].op = "send" /\ ops[r][j].ref = i

\* C19: a freed chunk has no wrapper in chunks_to_assemble that is still to be
\* combined, and no send of it is pending.
C19_FreedAfterUse ==
    \A ri \in freed :
        /\ \A q \in Ranks : \A k \in DOMAIN chunks_to_assemble[q] :
              Borrows(q, k, ri[1], ri[2]) => Combined(q)
        /\ ~SendPending(ri[1], ri[2])

\* Witness: a chunk with a wrapper and a chunk that was sent have been freed
\* while another rank has not yet combined.
C19_Witness ==
    /\ \E ri \in freed : \E k \in DOMAIN chunks_to_assemble[ri[1]] :
          Borrows(ri[1], k, ri[1], ri[2])
    /\ \E ri \in freed : \E j \in DOMAIN ops[ri[1]] :
          ops[ri[1]][j].op = "send" /\ ops[ri[1]][j].ref = ri[2]
    /\ \E q \in Ranks : ~Combined(q)

\* The chunks on the ranks below q.
ChunksBelow(q) == SumUpTo(NGlobalChunks(chunks), q - 1)

\* The chunks of all ranks as (rank, local index).
LocalChunks == {qi \in Ranks \X (0 .. (MaxChunks - 1)) : qi[2] \in DOMAIN chunks[qi[1]]}

\* C27: offsets[q] is the number of chunks on the ranks below q, so that
\* (q, i) -> offsets[q] + i is one-to-one from the local chunks onto the
\* global indices, and src_rank of a global index, which communicate_chunks
\* computes from offsets, is the rank that holds that chunk; the receives
\* that are posted name that rank.
C27_GlobalIndexBijection ==
    \A r \in Ranks : Mapped(r) =>
        /\ \A q \in Ranks : offsets[r][q] = ChunksBelow(q)
        /\ \A a, b \in LocalChunks :
              offsets[r][a[1]] + a[2] = offsets[r][b[1]] + b[2] => a = b
        /\ {offsets[r][a[1]] + a[2] : a \in LocalChunks} = GlobalIds
        /\ \A a \in LocalChunks :
              SrcRank(offsets[r], VecLen(dest_rank[r]))[offsets[r][a[1]] + a[2]] = a[1]
        /\ Posted(r) =>
              \A k \in DOMAIN ops[r] : ops[r][k].op = "recv" =>
                  \E a \in LocalChunks :
                      /\ ops[r][k].peer = a[1]
                      /\ ops[r][k].tag = Tag(offsets[r][a[1]] + a[2])

\* Witness: the first rank holds no chunk, the last holds two, and a rank
\* has posted a receive.
C27_Witness ==
    /\ VecLen(chunks[0]) = 0 /\ VecLen(chunks[size - 1]) = 2
    /\ \E r \in Ranks : Posted(r) /\ \E k \in DOMAIN ops[r] : ops[r][k].op = "recv"

\* The chunks that stay on their rank, as (rank, local index).
StayingChunks(r) == {i \in DOMAIN chunks[r] : dest_rank[r][offsets[r][r] + i] = r}

\* The nodes of chunks_to_assemble on rank r that wrap local chunk i for
\* domain d: the children of the chunk other than state, its state/cycle and
\* state/time, no other entry of its state, and state/domain_id = d.
WrappersOf(r, i, d) ==
    {k \in DOMAIN chunks_to_assemble[r] :
        /\ k \notin DOMAIN node_domains[r]
        /\ chunks_to_assemble[r][k].data = chunk_mesh[r][i].data
        /\ chunks_to_assemble[r][k].cycle = chunk_mesh[r][i].cycle
        /\ chunks_to_assemble[r][k].time = chunk_mesh[r][i].time
        /\ chunks_to_assemble[r][k].other = {}
        /\ chunks_to_assemble[r][k].domain_id = {d}}

\* C28: once communicate_chunks has posted its operations, a chunk whose
\* destination rank is its own rank has no send and no receive, and it is
\* in chunks_to_assemble as one wrapper node.
C28_LocalChunkWrapped ==
    \A r \in Ranks : Posted(r) =>
        \A i \in StayingChunks(r) :
            /\ \A k \in DOMAIN ops[r] :
                  /\ ~(ops[r][k].op = "send" /\ ops[r][k].ref = i)
                  /\ ~(ops[r][k].op = "recv" /\ ops[r][k].tag = Tag(offsets[r][r] + i))
            /\ Cardinality(WrappersOf(r, i, dest_domain[r][offsets[r][r] + i])) = 1
            /\ \A k \in WrappersOf(r, i, dest_domain[r][offsets[r][r] + i]) :
                  chunks_to_assemble_domains[r][k] = dest_domain[r][offsets[r][r] + i]

\* Witness: communicate_chunks returned on a rank where a chunk stays whose
\* state has a cycle, a time and another entry, and whose own domain id is
\* not the destination domain.
C28_Witness ==
    \E r \in Ranks : \E i \in DOMAIN chunks[r] :
        /\ Returned(r)
        /\ i \in StayingChunks(r)
        /\ chunk_mesh[r][i].cycle # {} /\ chunk_mesh[r][i].time # {}
        /\ chunk_mesh[r][i].other # {}
        /\ dest_domain[r][offsets[r][r] + i] \notin chunk_mesh[r][i].domain_id
        /\ \E j \in StayingChunks(r) : chunk_mesh[r][j].cycle = {}

\* The payload of the receive posted for node k of rank r has arrived.
ReceiveCompleted(r, k) ==
    /\ pc[r] \in {"payload", "done"}
    /\ ~\E j \in reqs[r] : ops[r][j].op = "recv" /\ ops[r][j].ref = k

\* C29: a received node changes only twice: when its payload arrives, and when
\* it is renumbered, which happens after the arrival and only writes the
\* destination domain to state/domain_id; so no arrival follows a renumbering.
C29_RenumberAfterReceive ==
    [][\A r \in Ranks : \A k \in DOMAIN node_domains[r] :
          chunks_to_assemble'[r][k] # chunks_to_assemble[r][k] =>
             \/ /\ ~ReceiveCompleted(r, k)
                /\ ReceiveCompleted(r, k)'
                /\ chunks_to_assemble'[r][k].data # {}
             \/ /\ ReceiveCompleted(r, k)
                /\ chunks_to_assemble[r][k].data # {}
                /\ chunks_to_assemble'[r][k] =
                      [chunks_to_assemble[r][k] EXCEPT
                          !.domain_id = {node_domains[r][k]}]]_vars

\* A payload has arrived with a domain id other than the destination domain
\* and waits for the renumbering, while another receive is still pending.
C29_Witness ==
    \E r \in Ranks :
        /\ pc[r] = "payload"
        /\ \E k \in DOMAIN node_domains[r] :
              /\ ReceiveCompleted(r, k)
              /\ chunks_to_assemble[r][k].data # {}
              /\ chunks_to_assemble[r][k].domain_id # {node_domains[r][k]}
        /\ \E k \in DOMAIN node_domains[r] : ~ReceiveCompleted(r, k)

\* Rank q is inside execute() with a send or a receive that has not completed.
TransportPending(q) ==
    /\ InTransport(q)
    /\ reqs[q] # {} \/ (pc[q] = "layout" /\ Len(ops[q]) > 0)

AllSelections == {<< r, i - 1 >> : r \in Ranks, i \in 1 .. MaxSplitTarget} \cap
                 {ri \in Ranks \X (0 .. (MaxSplitTarget - 1)) :
                     ri[2] + 1 \in DOMAIN selections[ri[1]]}

SelAt(ri) == selections[ri[1]][ri[2] + 1]

\* ri is a selection of the largest length; no selection of that length is on a
\* lower rank, or on the same rank at a lower index.
IsLargestPick(ri) ==
    /\ ri \in AllSelections
    /\ \A o \in AllSelections :
          /\ Length(SelAt(o)) <= Length(SelAt(ri))
          /\ Length(SelAt(o)) = Length(SelAt(ri)) =>
                \/ ri[1] < o[1]
                \/ ri[1] = o[1] /\ ri[2] <= o[2]

\* All ranks are between the return of get_largest_selection and the
\* replacement: the selections are those the call has seen.
InLargest == \A r \in Ranks : pc[r] \in {"maxloc", "replace"}

\* C11: when get_largest_selection has returned on a rank and there is a
\* selection, sel_rank is the rank of the largest selection, ties to the lowest
\* rank, and on that rank sel_index is the lowest index of such a selection.
C11_LargestSelection ==
    (InLargest /\ AllSelections # {}) =>
        \A r \in Ranks : pc[r] = "replace" =>
            \E ri \in AllSelections :
                /\ IsLargestPick(ri)
                /\ sel_rank[r] = ri[1]
                /\ sel_rank[r] = r => sel_index[r] = ri[2]
                /\ sel_rank[r] # r => sel_index[r] = -1

\* The number of selections over all ranks.
TotalSelections == ReduceSum([r \in Ranks |-> Len(selections[r])])

SplitDone == \A r \in Ranks : pc[r] = "split_done"

\* C13: every iteration splits exactly one selection (on the rank that
\* get_largest_selection names the count of selections goes up by one, on the
\* other ranks it stays), and split_selections ends with as many selections
\* over all ranks as the target.
C13_SplitTerminates ==
    /\ [][\A r \in Ranks : ReplaceSelection(r) =>
             Len(selections'[r]) = Len(selections[r]) + (IF sel_rank[r] = r THEN 1 ELSE 0)]_vars
    /\ <>(SplitDone /\ TotalSelections = target)

\* The element ids of a selection.
Elements(sel) == {sel.elements[i] : i \in DOMAIN sel.elements}

\* The local indices of the sub-selections of selection k of rank r.
DerivedFrom(r, k) == {i \in DOMAIN selections[r] : selections[r][i].origin = << r, k >>}

FieldSelections(r) == {selections[r][i] : i \in {k \in DOMAIN selections[r] :
                                                   selections[r][k].from_field}}

C25_OneRankReplaces ==
    InLargest =>
        \A r \in Ranks : pc[r] = "replace" =>
            /\ \A q \in Ranks : pc[q] = "replace" => sel_rank[q] = sel_rank[r]
            /\ sel_rank[r] # r => sel_index[r] = -1
            /\ sel_rank[r] = r =>
                  (0 <= sel_index[r] /\ sel_index[r] < Len(selections[r]))

(***************************************************************************)
(* Properties of the collectives.                                          *)
(***************************************************************************)
\* Rank r is inside a collective.
InCollective(r) == pc[r] \in {"count_gather", "count_gatherv", "total", "maxloc", "gather"}

\* Rank r is inside a collective that some rank has not entered yet.
Waits(r) ==
    /\ InCollective(r)
    /\ IF pc[r] = "gather" THEN entered # Ranks
       ELSE \E q \in Ranks : contrib[q] = NoValue

\* Rank q has ended: it enters no collective any more.
Ended(q) == pc[q] \in {"aborted", "mapped"}

\* C24: the ranks that wait inside a collective wait inside the same one,
\* and no rank waits inside a collective while another rank has ended, which
\* will not enter it.
C24_SameCollectives ==
    \A r, q \in Ranks :
        /\ (Waits(r) /\ Waits(q)) => pc[r] = pc[q]
        /\ Waits(r) => ~Ended(q)

=============================================================================
